---- MODULE Spec2Model ----
(***************************************************************************)
(* Model of the function-calling voice demo (05-function-calling): the     *)
(* RealtimeDemo instance, the browser objects it creates (peer             *)
(* connections, capture streams, data channels, audio elements,            *)
(* visualizers), the chat pane, the connect attempts in flight, the        *)
(* frames received on the data channel and the weather tool's lookups.     *)
(*                                                                         *)
(* Every connect attempt (one run of the connect branch of toggleSession)  *)
(* creates at most one object of each kind, so the objects are named by    *)
(* the number of the attempt that created them; 0 is null.                 *)
(***************************************************************************)
EXTENDS Integers, Sequences, FiniteSets, TLC

\* ------------------------------------------------------------------ bounds
MaxAttempts == 2      \* connect attempts started over one run
MaxInFlight == 2      \* connect attempts in flight at the same time
MaxSends    == 1      \* chat messages typed over one run
MaxEvents   == 3      \* frames received over one run
MaxLookups  == 1      \* tool calls started over one run
MaxSessions == 1      \* sessions of a run that receives frames
MaxItems    == 2      \* items in response.output
MaxRequests == 2      \* POST /session requests the relay receives
MaxStops    == 3      \* calls of stop() on one visualizer

NULL == 0
Attempts == 1..MaxAttempts
Requests == 1..MaxRequests

\* ------------------------------------------------- environment's answers
\* Outcomes of the credential request: a 2xx body with client_secret.value,
\* or one of the ways getEphemeralKey throws.
KeyOk     == {"ok_value"}
KeyBad    == {"ok_nosecret", "non2xx", "network"}
\* Non-2xx answers of the negotiation endpoint: status code and status text.
HttpErrors == {"401", "500"}
StatusText(c) == IF c = "401" THEN "Unauthorized" ELSE "Internal Server Error"

VARIABLES
  demo,       \* fields of the RealtimeDemo instance and the DOM texts it sets
  pcs,        \* RTCPeerConnection objects
  streams,    \* MediaStream objects returned by getUserMedia
  chans,      \* RTCDataChannel objects
  audios,     \* <audio> elements
  micViz,     \* visualizers created by setupMicrophone
  aiViz,      \* visualizers created by setupWebRTC
  chat,       \* ChatUI: the entries shown and lastMessageElement
  wxChannel,  \* weatherLookup.js: module-level dataChannel
  att,        \* connect attempts: position in toggleSession/setupWebRTC
  nAtt,       \* attempts started
  nSends,     \* chat messages typed
  lookups,    \* weatherLookup.js: the tool calls started, oldest first
  nEvents,    \* frames delivered to dataChannel.onmessage
  relay,      \* auth-server: the POST /session requests and their handlers
  asked       \* for each lookup, the channel whose onmessage started it

\* the variables of the page
page == <<demo, pcs, streams, chans, audios, micViz, aiViz, chat, wxChannel,
          att, nAtt, nSends, lookups, nEvents>>

vars == <<demo, pcs, streams, chans, audios, micViz, aiViz, chat, wxChannel,
          att, nAtt, nSends, lookups, nEvents, relay, asked>>

\* ---------------------------------------------------------------- objects
NoPc     == [state |-> "none", tracks |-> {}, lastOffer |-> NULL,
             localDesc |-> NULL, remoteDesc |-> FALSE, trackFired |-> FALSE,
             closeCalls |-> 0]
NoStream == [state |-> "none", enabled |-> FALSE, stopCalls |-> 0]
NoChan   == [state |-> "none", sent |-> <<>>, closeCalls |-> 0]
NoAudio  == [state |-> "none", src |-> FALSE, listeners |-> {}]
\* An AudioVisualizer: animationId and audioContext tell whether the fields
\* are set, frame whether the browser holds an animation frame request of
\* this visualizer that was not cancelled.
NoViz    == [state |-> "none", animationId |-> FALSE, audioContext |-> FALSE,
             frame |-> FALSE, stopCalls |-> 0]
\* A connect attempt: pc is the await it is suspended at, token the local of
\* toggleSession, opPc the connection whose promise it awaits.  The other
\* fields record its history: keyResp and postResp how the relay and the
\* negotiation endpoint answered, calls the browser calls it made and their
\* completions, stale whether closeConnection ran while it was in flight,
\* failedAt the step that threw.
NoAttempt == [pc |-> "idle", token |-> "none", opPc |-> NULL,
              keyResp |-> "none", postResp |-> "none", calls |-> <<>>,
              stale |-> FALSE, failedAt |-> "none"]

\* ----------------------------------------------------------------- frames
WelcomeEvent    == [type |-> "response.create", body |-> "welcome"]
\* config.js: CONFIG.API, and tools.js: the names of the declared tools
CONFIG_API ==
  [BASE_URL |-> "https://api.openai.com/v1/realtime",
   MODEL |-> "gpt-4o-realtime-preview-2024-12-17",
   VOICE |-> "verse",
   TURN_DETECTION |-> [type |-> "server_vad", threshold |-> "0.5",
                       prefix_padding_ms |-> 400, silence_duration_ms |-> 700,
                       create_response |-> TRUE],
   SERVER_URL |-> "SERVER_URL"]
tools == <<"getWeatherData", "getBrowserLocationWeatherData">>

\* JSON.stringify of an object literal with the property `key: src.field`:
\* a property whose value is undefined is left out of the text
WithProperty(obj, key, src, field) ==
  IF field \in DOMAIN src THEN obj @@ (key :> src[field]) ELSE obj

SetInstructions ==
  [type |-> "session.update",
   session |-> WithProperty(
       [instructions |-> "DEFAULT_INSTRUCTIONS",
        turn_detection |-> CONFIG_API.TURN_DETECTION,
        input_audio_transcription |-> [model |-> "whisper-1"],
        tools |-> tools],
       "max_output_tokens", CONFIG_API, "MAX_OUTPUT_TOKENS")]
\* handleChatMessage: the message item (item.role, item.content[0].type and
\* item.content[0].text) and the request for a response (response.modalities)
MessageEvent(m) == [type |-> "conversation.item.create", role |-> "user",
                    content |-> "input_text", body |-> m]
TextResponseEvent == [type |-> "response.create", body |-> "text",
                      modalities |-> <<"text">>]

\* RealtimeDemo constructor
InitDemo ==
  [peerConnection |-> NULL, mediaStream |-> NULL, isConnected |-> FALSE,
   dataChannel |-> NULL, hasWelcomed |-> FALSE, audioElement |-> NULL,
   isTalking |-> TRUE, micVisualizer |-> NULL, aiVisualizer |-> NULL,
   status |-> <<>>, micDisabled |-> TRUE, micText |-> "Unmute Mic",
   connText |-> "Create Session"]

\* a request the relay has not received yet
NoRequest == [pc |-> "idle", model |-> "<undefined>", voice |-> "<undefined>",
              responses |-> <<>>, fetches |-> <<>>]

\* ChatUI constructor
InitChat == [messages |-> <<>>, lastMessageElement |-> NULL]

Init ==
  /\ demo = InitDemo
  /\ pcs = [a \in Attempts |-> NoPc]
  /\ streams = [a \in Attempts |-> NoStream]
  /\ chans = [a \in Attempts |-> NoChan]
  /\ audios = [a \in Attempts |-> NoAudio]
  /\ micViz = [a \in Attempts |-> NoViz]
  /\ aiViz = [a \in Attempts |-> NoViz]
  /\ chat = InitChat
  /\ wxChannel = NULL
  /\ att = [a \in Attempts |-> NoAttempt]
  /\ nAtt = 0
  /\ nSends = 0
  /\ lookups = <<>>
  /\ nEvents = 0
  /\ relay = [q \in Requests |-> NoRequest]
  /\ asked = <<>>


\* ------------------------------------------------------------ small helpers
Status(prefix, err) == <<prefix>> \o err

\* The state a method of the demo reads and writes.
World == [demo |-> demo, pcs |-> pcs, streams |-> streams, chans |-> chans,
          audios |-> audios, micViz |-> micViz, aiViz |-> aiViz, chat |-> chat]

\* MediaStreamTrack.stop() on every track of a stream
StopTracks(s) == [s EXCEPT !.state = "stopped", !.stopCalls = @ + 1]

\* RTCDataChannel.close(): the channel leaves connecting/open at once, its
\* close event is delivered later
CloseChannel(c) ==
  [c EXCEPT !.state = IF @ \in {"connecting", "open"} THEN "closing" ELSE @,
            !.closeCalls = @ + 1]

\* RTCPeerConnection.close()
ClosePc(p) == [p EXCEPT !.state = "closed", !.closeCalls = @ + 1]

\* AudioVisualizer.stop()
StopVisualizer(v) ==
  [v EXCEPT !.animationId = FALSE, !.audioContext = FALSE,
            !.frame = IF v.animationId THEN FALSE ELSE @,
            !.state = IF @ = "running" THEN "stopped" ELSE @,
            !.stopCalls = @ + 1]

\* ChatUI.clearMessages()
clearMessages(c) == [messages |-> <<>>, lastMessageElement |-> NULL]

\* ChatUI.addMessage(content, sender)
addMessage(c, content, sender) ==
  [messages |-> Append(c.messages, [text |-> content, sender |-> sender]),
   lastMessageElement |-> Len(c.messages) + 1]

\* closeConnection, first half: release what the fields refer to
releaseAll(w) ==
  LET d == w.demo
      st == IF d.mediaStream # NULL
              THEN [w.streams EXCEPT ![d.mediaStream] = StopTracks(@)]
              ELSE w.streams
      pc == IF d.peerConnection # NULL
              THEN [w.pcs EXCEPT ![d.peerConnection] = ClosePc(@)]
              ELSE w.pcs
      \* closing a peer connection closes the data channel created on it
      ch1 == IF d.peerConnection # NULL
               THEN [w.chans EXCEPT ![d.peerConnection].state =
                        IF @ \in {"connecting", "open"} THEN "closing" ELSE @]
               ELSE w.chans
      au == IF d.audioElement # NULL
              THEN [w.audios EXCEPT ![d.audioElement].state = "removed"]
              ELSE w.audios
      ch2 == IF d.dataChannel # NULL
               THEN [ch1 EXCEPT ![d.dataChannel] = CloseChannel(@)]
               ELSE ch1
      av == IF d.aiVisualizer # NULL
              THEN [w.aiViz EXCEPT ![d.aiVisualizer] = StopVisualizer(@)]
              ELSE w.aiViz
      mv == IF d.micVisualizer # NULL
              THEN [w.micViz EXCEPT ![d.micVisualizer] = StopVisualizer(@)]
              ELSE w.micViz
  IN [demo |-> d, pcs |-> pc, streams |-> st, chans |-> ch2, audios |-> au,
      micViz |-> mv, aiViz |-> av, chat |-> clearMessages(w.chat)]

\* closeConnection, second half: reset the fields and the UI
resetFields(d) ==
  [d EXCEPT !.peerConnection = NULL, !.mediaStream = NULL,
            !.audioElement = NULL, !.dataChannel = NULL,
            !.micVisualizer = NULL, !.aiVisualizer = NULL,
            !.isConnected = FALSE, !.isTalking = TRUE,
            !.micDisabled = TRUE, !.micText = "Unmute Mic",
            !.connText = "Create Session", !.status = <<"Not connected">>]

closeConnection_ResetsLatch(w) ==
  [releaseAll(w) EXCEPT
     !.demo = [resetFields(w.demo) EXCEPT !.hasWelcomed = FALSE]]

closeConnection_KeepsStream(w) ==
  [releaseAll(w) EXCEPT
     !.demo = [resetFields(w.demo) EXCEPT !.mediaStream = w.demo.mediaStream]]

closeConnection_LeavesChannel(w) ==
  [releaseAll(w) EXCEPT !.chans = w.chans, !.demo = resetFields(w.demo)]

\* RealtimeDemo.closeConnection(), as a function of the state it touches
closeConnection(w) == [releaseAll(w) EXCEPT !.demo = resetFields(w.demo)]

\* ------------------------------------------------------- connect attempts
InFlight(a) == att[a].pc \notin {"idle", "done", "failed"}

\* An exception reaches the catch of toggleSession: every catch on the way
\* has written its own status text, the last one is what stays displayed.
Fail(a, at, err) ==
  /\ att' = [att EXCEPT ![a].pc = "failed", ![a].failedAt = at]
  /\ demo' = [demo EXCEPT !.status = Status("Connection failed: ", err)]

\* toggleSession, connect branch up to the first await
ClickConnect ==
  /\ ~demo.isConnected
  /\ nAtt < MaxAttempts
  /\ Cardinality({a \in Attempts : InFlight(a)}) < MaxInFlight
  /\ nAtt' = nAtt + 1
  /\ demo' = [demo EXCEPT !.status = <<"Connecting...">>]
  /\ att' = [att EXCEPT ![nAtt + 1].pc = "key",
                        ![nAtt + 1].calls = <<"getEphemeralKey">>]
  /\ UNCHANGED <<relay, asked, pcs, streams, chans, audios, micViz, aiViz, chat, wxChannel,
                 nSends,
                 lookups, nEvents>>

\* toggleSession, close branch
ClickClose ==
  /\ demo.isConnected
  /\ LET w == closeConnection(World)
     IN /\ demo' = w.demo
        /\ pcs' = w.pcs
        /\ streams' = w.streams
        /\ chans' = w.chans
        /\ audios' = w.audios
        /\ micViz' = w.micViz
        /\ aiViz' = w.aiViz
        /\ chat' = w.chat
  /\ att' = [a \in Attempts |->
               IF InFlight(a) THEN [att[a] EXCEPT !.stale = TRUE] ELSE att[a]]
  /\ UNCHANGED <<relay, asked, wxChannel, nAtt, nSends,
                 lookups, nEvents>>

\* getEphemeralKey returned: setupWebRTC runs up to getUserMedia
KeyResolved(a, r) ==
  /\ att[a].pc = "key"
  /\ r \in KeyOk
  /\ pcs' = [pcs EXCEPT ![a] = [NoPc EXCEPT !.state = "open"]]
  /\ aiViz' = [aiViz EXCEPT ![a].state = "created"]
  /\ audios' = [audios EXCEPT ![a].state = "attached"]
  /\ chans' = [chans EXCEPT ![a].state = "connecting"]
  /\ demo' = [demo EXCEPT !.peerConnection = a, !.audioElement = a,
                          !.dataChannel = a]
  /\ att' = [att EXCEPT ![a].pc = "gum",
               ![a].token = "ek", ![a].keyResp = "ok",
               ![a].calls = @ \o <<"getEphemeralKey.ok", "RTCPeerConnection",
                                   "createDataChannel", "getUserMedia">>]
  /\ UNCHANGED <<relay, asked, streams, micViz, chat, wxChannel, nAtt, nSends,
                 lookups, nEvents>>

KeyErrorMessage(r) ==
  CASE r = "non2xx"      -> <<"Failed to get session key">>
    [] r = "ok_nosecret" -> <<"TypeError">>
    [] OTHER             -> <<"NetworkError">>

KeyRejected_Proceeds(a, r) ==
  /\ att[a].pc = "key"
  /\ r \in KeyBad
  /\ pcs' = [pcs EXCEPT ![a] = [NoPc EXCEPT !.state = "open"]]
  /\ chans' = [chans EXCEPT ![a].state = "connecting"]
  /\ demo' = [demo EXCEPT !.peerConnection = a, !.dataChannel = a]
  /\ att' = [att EXCEPT ![a].pc = "gum", ![a].token = "undefined",
               ![a].keyResp = "failed",
               ![a].calls = @ \o <<"RTCPeerConnection", "createDataChannel",
                                   "getUserMedia">>]
  /\ UNCHANGED <<relay, asked, streams, audios, micViz, aiViz, chat, wxChannel, nAtt, nSends,
                 lookups, nEvents>>

\* getEphemeralKey threw
KeyRejected(a, r) ==
  /\ att[a].pc = "key"
  /\ r \in KeyBad
  /\ att' = [att EXCEPT ![a].pc = "failed", ![a].failedAt = "key",
                        ![a].keyResp = "failed"]
  /\ demo' = [demo EXCEPT
                !.status = Status("Connection failed: ", KeyErrorMessage(r))]
  /\ UNCHANGED <<relay, asked, pcs, streams, chans, audios, micViz, aiViz, chat, wxChannel,
                 nAtt, nSends,
                 lookups, nEvents>>

\* getUserMedia resolved: rest of setupMicrophone, then createOffer
GumResolved(a) ==
  /\ att[a].pc = "gum"
  /\ streams' = [streams EXCEPT ![a] = [NoStream EXCEPT !.state = "live",
                                                        !.enabled = TRUE]]
  /\ micViz' = [micViz EXCEPT ![a] = [NoViz EXCEPT !.state = "running",
                             !.animationId = TRUE, !.audioContext = TRUE,
                             !.frame = TRUE]]
  /\ IF demo.peerConnection = NULL
       THEN /\ att' = [att EXCEPT ![a].pc = "failed", ![a].failedAt = "addTrack",
                                  ![a].calls = @ \o <<"getUserMedia.ok">>]
            /\ demo' = [demo EXCEPT !.mediaStream = a, !.micVisualizer = a,
                          !.status = Status("Connection failed: ",
                                            <<"TypeError">>)]
            /\ pcs' = pcs
       ELSE /\ pcs' = [pcs EXCEPT ![demo.peerConnection].tracks = @ \cup {a}]
            /\ demo' = [demo EXCEPT !.mediaStream = a, !.micVisualizer = a]
            /\ att' = [att EXCEPT ![a].pc = "offer",
                         ![a].opPc = demo.peerConnection,
                         ![a].calls = @ \o <<"getUserMedia.ok", "addTrack",
                                             "createOffer">>]
  /\ UNCHANGED <<relay, asked, chans, audios, aiViz, chat, wxChannel, nAtt, nSends,
                 lookups, nEvents>>

\* getUserMedia rejected
GumRejected(a) ==
  /\ att[a].pc = "gum"
  /\ Fail(a, "gum", <<"NotAllowedError">>)
  /\ UNCHANGED <<relay, asked, pcs, streams, chans, audios, micViz, aiViz, chat, wxChannel,
                 nAtt, nSends,
                 lookups, nEvents>>


\* A promise of a peer connection settles only while the connection is open.
OpPcOpen(a) == att[a].opPc # NULL /\ pcs[att[a].opPc].state = "open"

\* A step of setupWebRTC that dereferences this.peerConnection after close
NullPc(a, at) ==
  Fail(a, at, <<"TypeError">>)

OfferResolved_NoAwait(a) ==
  /\ att[a].pc = "offer"
  /\ OpPcOpen(a)
  /\ demo.peerConnection # NULL
  /\ pcs' = [pcs EXCEPT ![att[a].opPc].lastOffer = a]
  /\ att' = [att EXCEPT ![a].pc = "post", ![a].opPc = NULL,
               ![a].calls = @ \o <<"createOffer.ok", "setLocalDescription",
                                   "POST">>]
  /\ UNCHANGED <<relay, asked, demo, streams, chans, audios, micViz, aiViz, chat, wxChannel,
                 nAtt, nSends,
                 lookups, nEvents>>

\* createOffer resolved: setLocalDescription is called
OfferResolved(a) ==
  /\ att[a].pc = "offer"
  /\ OpPcOpen(a)
  /\ IF demo.peerConnection = NULL
       THEN /\ NullPc(a, "setLocalDescription")
            /\ pcs' = [pcs EXCEPT ![att[a].opPc].lastOffer = a]
       ELSE /\ pcs' = [pcs EXCEPT ![att[a].opPc].lastOffer = a]
            /\ att' = [att EXCEPT ![a].pc = "sld",
                         ![a].opPc = demo.peerConnection,
                         ![a].calls = @ \o <<"createOffer.ok",
                                             "setLocalDescription">>]
            /\ demo' = demo
  /\ UNCHANGED <<relay, asked, streams, chans, audios, micViz, aiViz, chat, wxChannel,
                 nAtt, nSends,
                 lookups, nEvents>>

\* createOffer rejected
OfferRejected(a) ==
  /\ att[a].pc = "offer"
  /\ Fail(a, "createOffer", <<"OperationError">>)
  /\ UNCHANGED <<relay, asked, pcs, streams, chans, audios, micViz, aiViz, chat, wxChannel,
                 nAtt, nSends,
                 lookups, nEvents>>

\* setLocalDescription resolved: the offer is POSTed with the token
SldResolved(a) ==
  /\ att[a].pc = "sld"
  /\ OpPcOpen(a)
  /\ pcs[att[a].opPc].lastOffer = a
  /\ pcs' = [pcs EXCEPT ![att[a].opPc].localDesc = a]
  /\ att' = [att EXCEPT ![a].pc = "post", ![a].opPc = NULL,
                        ![a].calls = @ \o <<"setLocalDescription.ok", "POST">>]
  /\ UNCHANGED <<relay, asked, demo, streams, chans, audios, micViz, aiViz, chat, wxChannel,
                 nAtt, nSends,
                 lookups, nEvents>>

\* setLocalDescription rejected
SldRejected(a) ==
  /\ att[a].pc = "sld"
  /\ Fail(a, "setLocalDescription", <<"InvalidModificationError">>)
  /\ UNCHANGED <<relay, asked, pcs, streams, chans, audios, micViz, aiViz, chat, wxChannel,
                 nAtt, nSends,
                 lookups, nEvents>>

\* the negotiation endpoint answered 2xx and the answer text was read:
\* setRemoteDescription is called
PostResolved(a) ==
  /\ att[a].pc = "post"
  /\ IF demo.peerConnection = NULL
       THEN /\ att' = [att EXCEPT ![a].pc = "failed", ![a].postResp = "2xx",
                         ![a].failedAt = "setRemoteDescription",
                         ![a].calls = @ \o <<"POST.2xx">>]
            /\ demo' = [demo EXCEPT !.status = Status("Connection failed: ",
                                                      <<"TypeError">>)]
       ELSE /\ att' = [att EXCEPT ![a].pc = "srd", ![a].postResp = "2xx",
                         ![a].opPc = demo.peerConnection,
                         ![a].calls = @ \o <<"POST.2xx",
                                             "setRemoteDescription">>]
            /\ demo' = demo
  /\ UNCHANGED <<relay, asked, pcs, streams, chans, audios, micViz, aiViz, chat, wxChannel,
                 nAtt, nSends,
                 lookups, nEvents>>

PostNotOk_Proceeds(a, code) ==
  /\ att[a].pc = "post"
  /\ code \in HttpErrors
  /\ demo.peerConnection # NULL
  /\ att' = [att EXCEPT ![a].pc = "srd", ![a].postResp = "non2xx",
               ![a].opPc = demo.peerConnection,
               ![a].calls = @ \o <<"setRemoteDescription">>]
  /\ UNCHANGED <<relay, asked, demo, pcs, streams, chans, audios, micViz, aiViz, chat,
                 wxChannel, nAtt, nSends,
                 lookups, nEvents>>

PostNotOk_Retries(a, code) ==
  /\ att[a].pc = "post"
  /\ code \in HttpErrors
  /\ att' = [att EXCEPT ![a].postResp = "non2xx",
                        ![a].calls = @ \o <<"POST">>]
  /\ UNCHANGED <<relay, asked, demo, pcs, streams, chans, audios, micViz, aiViz, chat,
                 wxChannel, nAtt, nSends,
                 lookups, nEvents>>

\* the negotiation endpoint answered non-2xx
PostNotOk(a, code) ==
  /\ att[a].pc = "post"
  /\ code \in HttpErrors
  /\ att' = [att EXCEPT ![a].pc = "failed", ![a].postResp = "non2xx",
               ![a].failedAt = "post"]
  /\ demo' = [demo EXCEPT !.status =
       Status("Connection failed: ",
              <<"Failed to connect: ", code, StatusText(code)>>)]
  /\ UNCHANGED <<relay, asked, pcs, streams, chans, audios, micViz, aiViz, chat, wxChannel,
                 nAtt, nSends,
                 lookups, nEvents>>

\* the offer POST threw (network error)
PostRejected(a) ==
  /\ att[a].pc = "post"
  /\ Fail(a, "fetch", <<"NetworkError">>)
  /\ UNCHANGED <<relay, asked, pcs, streams, chans, audios, micViz, aiViz, chat, wxChannel,
                 nAtt, nSends,
                 lookups, nEvents>>

\* setRemoteDescription resolved: setupWebRTC returns, toggleSession finishes
SrdResolved(a) ==
  /\ att[a].pc = "srd"
  /\ OpPcOpen(a)
  /\ pcs[att[a].opPc].localDesc # NULL
  /\ ~pcs[att[a].opPc].remoteDesc
  /\ pcs' = [pcs EXCEPT ![att[a].opPc].remoteDesc = TRUE]
  /\ att' = [att EXCEPT ![a].pc = "done", ![a].opPc = NULL,
                        ![a].calls = @ \o <<"setRemoteDescription.ok",
                                            "isConnected">>]
  /\ demo' = [demo EXCEPT !.isConnected = TRUE, !.micDisabled = FALSE,
                          !.micText = "Mute Mic", !.connText = "Close Session",
                          !.status = <<"Connected">>]
  /\ UNCHANGED <<relay, asked, streams, chans, audios, micViz, aiViz, chat, wxChannel,
                 nAtt, nSends,
                 lookups, nEvents>>

\* setRemoteDescription rejected
SrdRejected(a) ==
  /\ att[a].pc = "srd"
  /\ Fail(a, "setRemoteDescription", <<"InvalidStateError">>)
  /\ UNCHANGED <<relay, asked, pcs, streams, chans, audios, micViz, aiViz, chat, wxChannel,
                 nAtt, nSends,
                 lookups, nEvents>>

\* ------------------------------------------------------ data channel events
\* RTCDataChannel.send succeeds only on an open channel
CanSend(ch, t) == t # NULL /\ ch[t].state = "open"

\* dataChannel.onopen of the channel created by attempt c
ChannelOpen(c) ==
  /\ chans[c].state = "connecting"
  /\ pcs[c].state = "open"
  /\ pcs[c].remoteDesc
  /\ LET opened == [chans EXCEPT ![c].state = "open"]
         t == demo.dataChannel
         frames == (IF demo.hasWelcomed THEN <<>> ELSE <<WelcomeEvent>>)
                     \o <<SetInstructions>>
     IN /\ wxChannel' = t
        /\ IF CanSend(opened, t)
             THEN /\ chans' = [opened EXCEPT ![t].sent = @ \o frames]
                  /\ demo' = [demo EXCEPT !.hasWelcomed = TRUE,
                                !.status = <<"Connected to Realtime API">>]
             ELSE /\ chans' = opened
                  /\ demo' = [demo EXCEPT
                                !.status = <<"Connected to Realtime API">>]
  /\ UNCHANGED <<relay, asked, pcs, streams, audios, micViz, aiViz, chat, att, nAtt, nSends,
                 lookups, nEvents>>

\* dataChannel.onclose: after close(), or closed by the remote side
ChannelClosed(c) ==
  /\ chans[c].state \in {"open", "closing"}
  /\ chans' = [chans EXCEPT ![c].state = "closed"]
  /\ demo' = [demo EXCEPT !.status = <<"Disconnected from Realtime API">>]
  /\ UNCHANGED <<relay, asked, pcs, streams, audios, micViz, aiViz, chat, wxChannel, att,
                 nAtt, nSends,
                 lookups, nEvents>>

\* --------------------------------------------------------- remote audio
\* peerConnection.ontrack of the connection created by attempt p
RemoteTrack(p) ==
  /\ pcs[p].state = "open"
  /\ pcs[p].remoteDesc
  /\ ~pcs[p].trackFired
  /\ pcs' = [pcs EXCEPT ![p].trackFired = TRUE]
  /\ audios' = IF demo.audioElement = NULL
                 THEN audios
                 ELSE [audios EXCEPT ![demo.audioElement].src = TRUE,
                                     ![demo.audioElement].listeners = @ \cup {p}]
  /\ UNCHANGED <<relay, asked, demo, streams, chans, micViz, aiViz, chat, wxChannel, att,
                 nAtt, nSends,
                 lookups, nEvents>>

\* the once-only canplay listener registered by ontrack of connection p
CanPlay(x, p) ==
  /\ audios[x].src
  /\ p \in audios[x].listeners
  /\ audios' = [audios EXCEPT ![x].listeners = @ \ {p}]
  /\ demo' = [demo EXCEPT !.aiVisualizer = p]
  /\ aiViz' = [aiViz EXCEPT ![p].state = "running", ![p].animationId = TRUE,
                            ![p].audioContext = TRUE, ![p].frame = TRUE]
  /\ UNCHANGED <<relay, asked, pcs, streams, chans, micViz, chat, wxChannel, att, nAtt,
                 nSends,
                 lookups, nEvents>>

\* ------------------------------------------------------------- mic button
\* RealtimeDemo.toggleTalk(), as a function of the instance and the streams
toggleTalkOn(d, st) ==
  IF d.mediaStream = NULL
    THEN [demo |-> d, streams |-> st]
    ELSE [demo |-> [d EXCEPT
                      !.isTalking = ~@,
                      !.micText = IF ~d.isTalking THEN "Mute Mic"
                                                  ELSE "Unmute Mic",
                      !.status = IF ~d.isTalking THEN <<"Microphone active">>
                                                 ELSE <<"Microphone muted">>],
          streams |-> [st EXCEPT ![d.mediaStream].enabled = ~d.isTalking]]

\* a click on the mic button that finds a stream
toggleTalk ==
  /\ ~demo.micDisabled
  /\ demo.mediaStream # NULL
  /\ demo' = toggleTalkOn(demo, streams).demo
  /\ streams' = toggleTalkOn(demo, streams).streams
  /\ UNCHANGED <<relay, asked, pcs, chans, audios, micViz, aiViz, chat, wxChannel,
                 att, nAtt, nSends, lookups, nEvents>>

\* ChatUI: the focus handler of the chat input, which clicks the mic button
\* when it is enabled and reads 'Mute Mic'
focus(d, st) ==
  IF ~d.micDisabled /\ d.micText = "Mute Mic"
    THEN toggleTalkOn(d, st)
    ELSE [demo |-> d, streams |-> st]

\* the chat input receives the focus
FocusChatInput ==
  /\ demo' = focus(demo, streams).demo
  /\ streams' = focus(demo, streams).streams
  /\ UNCHANGED <<relay, asked, pcs, chans, audios, micViz, aiViz, chat, wxChannel,
                 att, nAtt, nSends, lookups, nEvents>>

\* ------------------------------------------------------------------- chat
Messages == {"hello"}

handleChatMessage_NoGuard(d, ch, m) ==
  IF d.dataChannel = NULL
    THEN ch
    ELSE [ch EXCEPT ![d.dataChannel].sent =
                       @ \o <<MessageEvent(m), TextResponseEvent>>]

handleChatMessage_ResponseFirst(d, ch, m) ==
  IF ~CanSend(ch, d.dataChannel)
    THEN ch
    ELSE [ch EXCEPT ![d.dataChannel].sent =
                       @ \o <<TextResponseEvent, MessageEvent(m)>>]

\* RealtimeDemo.handleChatMessage(message), as a function of the channels
handleChatMessage(d, ch, m) ==
  IF ~CanSend(ch, d.dataChannel)
    THEN ch
    ELSE [ch EXCEPT ![d.dataChannel].sent =
                       @ \o <<MessageEvent(m), TextResponseEvent>>]

\* ChatUI.handleSend with a non-empty input
handleSend(m) ==
  /\ nSends < MaxSends
  /\ nSends' = nSends + 1
  /\ chat' = addMessage(chat, m, "user")
  /\ chans' = handleChatMessage(demo, chans, m)
  /\ UNCHANGED <<relay, asked, demo, pcs, streams, audios, micViz, aiViz, wxChannel, att, nAtt,
                 lookups, nEvents>>

\* --------------------------------------------------------- inbound frames
\* A property that is absent from a parsed object
undefined == "<undefined>"
\* JavaScript truthiness of a string-or-undefined value
Truthy(v) == v # undefined /\ v # ""

\* event.data of a message event: json tells whether JSON.parse accepts it,
\* the other fields are the properties the handler reads from the parsed
\* object (output is response.output, empty when absent).
NotJson == [json |-> FALSE, type |-> undefined, transcript |-> undefined,
            text |-> undefined, output |-> <<>>]
Event(t) == [json |-> TRUE, type |-> t, transcript |-> undefined,
             text |-> undefined, output |-> <<>>]
Transcript(t, s) == [Event(t) EXCEPT !.transcript = s]
ResponseDone(items) == [Event("response.done") EXCEPT !.output = items]

\* items of response.output: text is content?.[0]?.text
MessageItem(s) == [type |-> "message", text |-> s, name |-> undefined,
                   arguments |-> undefined]
FunctionCall(n, s) == [type |-> "function_call", text |-> undefined,
                       name |-> n, arguments |-> s]

\* arguments strings of function_call items, and what JSON.parse makes of
\* them: an object with the properties the handler reads, or a SyntaxError
ArgsPlace  == "{'locationName':'Paris'}"
ArgsCoords == "{'lat':48.85,'lon':2.35}"
ArgsBoth   == "{'lat':0,'lon':0,'locationName':'Paris, France'}"
ArgsEmpty  == "{}"
ArgsCut    == "{'locationName':"
ArgStrings == {ArgsPlace, ArgsCoords, ArgsBoth, ArgsEmpty, ArgsCut, ""}

JSONparse(s) ==
  CASE s = ArgsPlace  -> [ok |-> TRUE, lat |-> undefined, lon |-> undefined,
                          locationName |-> "Paris"]
    [] s = ArgsCoords -> [ok |-> TRUE, lat |-> "48.85", lon |-> "2.35",
                          locationName |-> undefined]
    [] s = ArgsBoth   -> [ok |-> TRUE, lat |-> "0", lon |-> "0",
                          locationName |-> "Paris, France"]
    [] s = ArgsEmpty  -> [ok |-> TRUE, lat |-> undefined, lon |-> undefined,
                          locationName |-> undefined]
    [] OTHER          -> [ok |-> FALSE, lat |-> undefined, lon |-> undefined,
                          locationName |-> undefined]

\* ChatUI.updateLastMessage(content, sender)
updateLastMessage(c, content, sender) ==
  IF c.lastMessageElement # NULL
       /\ c.messages[c.lastMessageElement].sender = sender
    THEN [c EXCEPT !.messages[c.lastMessageElement].text = content]
    ELSE addMessage(c, content, sender)

\* ------------------------------------------------------------ weather tool
\* a parameter left undefined takes its default, null
Default(v) == IF v = undefined THEN "null" ELSE v

\* getWeatherData up to its first await: the geocoding request when a
\* location name is given, the forecast request otherwise
getWeatherData(lks, lat, lon, locationName) ==
  Append(lks, [fn |-> "getWeatherData",
               stage |-> IF Truthy(locationName) THEN "geocode" ELSE "forecast",
               lat |-> Default(lat), lon |-> Default(lon),
               locationName |-> Default(locationName), error |-> "none"])

\* getBrowserLocationWeatherData with navigator.geolocation present:
\* getCurrentPosition is called
getBrowserLocationWeatherData(lks) ==
  Append(lks, [fn |-> "getBrowserLocationWeatherData", stage |-> "position",
               lat |-> "null", lon |-> "null", locationName |-> "null",
               error |-> "none"])

\* ------------------------------------------------------------- dispatcher
\* What dataChannel.onmessage reads and writes; threw tells whether the
\* handler ended by an uncaught exception.
DWorld == [demo |-> demo, chat |-> chat, chans |-> chans,
           lookups |-> lookups, threw |-> FALSE]

\* one pass of the body of the loop over response.output
handleItem(w, item) ==
  IF item.type = "message" /\ Truthy(item.text)
    THEN [w EXCEPT !.chat = addMessage(@, item.text, "ai")]
    ELSE IF item.type = "function_call"
      THEN LET args == JSONparse(item.arguments)
           IN IF ~args.ok
                THEN [w EXCEPT !.threw = TRUE]
                ELSE IF item.name = "getWeatherData"
                  THEN [w EXCEPT !.lookups =
                          getWeatherData(@, args.lat, args.lon,
                                         args.locationName)]
                  ELSE IF item.name = "getBrowserLocationWeatherData"
                    THEN [w EXCEPT !.lookups = getBrowserLocationWeatherData(@)]
                    ELSE w
      ELSE w

forEachOutput_FirstOnly(w, items) ==
  IF items = <<>> THEN w ELSE handleItem(w, Head(items))

\* for (const item of realtimeEvent.response.output): an exception ends it
RECURSIVE forEachOutput(_, _)
forEachOutput(w, items) ==
  IF items = <<>> \/ w.threw
    THEN w
    ELSE forEachOutput(handleItem(w, Head(items)), Tail(items))

onmessage_CompletedAlways(w, data) ==
  IF ~data.json
    THEN [w EXCEPT !.threw = TRUE]
    ELSE
      CASE data.type = "input_audio_buffer.speech_started" ->
             [w EXCEPT !.chat = addMessage(@, "Speaking...", "user"),
                       !.demo.status = <<"User speaking">>]
        [] data.type = "input_audio_buffer.speech_stopped" ->
             [w EXCEPT !.demo.status = <<"Speech stopped">>]
        [] data.type = "input_audio_buffer.committed" ->
             [w EXCEPT
                !.chat = updateLastMessage(@, "Processing speech...", "user"),
                !.demo.status = <<"Processing speech...">>]
        [] data.type = "conversation.item.input_audio_transcription" ->
             LET partialText ==
                   IF data.transcript # undefined THEN data.transcript
                   ELSE IF data.text # undefined THEN data.text
                   ELSE "User is speaking..."
             IN [w EXCEPT !.chat = updateLastMessage(@, partialText, "user")]
        [] data.type =
             "conversation.item.input_audio_transcription.completed" ->
             [w EXCEPT
                !.chat = updateLastMessage(@, data.transcript, "user"),
                !.demo.status = <<"Connected">>]
        [] data.type = "response.audio_transcript.done" ->
             IF Truthy(data.transcript)
               THEN [w EXCEPT !.chat = addMessage(@, data.transcript, "ai")]
               ELSE w
        [] data.type = "response.done" -> forEachOutput(w, data.output)
        [] OTHER -> w

onmessage_ElseStatus(w, data) ==
  IF ~data.json
    THEN [w EXCEPT !.threw = TRUE]
    ELSE IF data.type = "response.done"
      THEN forEachOutput(w, data.output)
      ELSE [w EXCEPT !.demo.status = <<data.type>>]

\* dataChannel.onmessage
onmessage(w, data) ==
  IF ~data.json
    THEN [w EXCEPT !.threw = TRUE]
    ELSE
      CASE data.type = "input_audio_buffer.speech_started" ->
             [w EXCEPT !.chat = addMessage(@, "Speaking...", "user"),
                       !.demo.status = <<"User speaking">>]
        [] data.type = "input_audio_buffer.speech_stopped" ->
             [w EXCEPT !.demo.status = <<"Speech stopped">>]
        [] data.type = "input_audio_buffer.committed" ->
             [w EXCEPT
                !.chat = updateLastMessage(@, "Processing speech...", "user"),
                !.demo.status = <<"Processing speech...">>]
        [] data.type = "conversation.item.input_audio_transcription" ->
             LET partialText ==
                   IF data.transcript # undefined THEN data.transcript
                   ELSE IF data.text # undefined THEN data.text
                   ELSE "User is speaking..."
             IN [w EXCEPT !.chat = updateLastMessage(@, partialText, "user")]
        [] data.type =
             "conversation.item.input_audio_transcription.completed" ->
             IF Truthy(data.transcript)
               THEN [w EXCEPT
                       !.chat = updateLastMessage(@, data.transcript, "user"),
                       !.demo.status = <<"Connected">>]
               ELSE w
        [] data.type = "response.audio_transcript.done" ->
             IF Truthy(data.transcript)
               THEN [w EXCEPT !.chat = addMessage(@, data.transcript, "ai")]
               ELSE w
        [] data.type = "response.done" -> forEachOutput(w, data.output)
        [] OTHER -> w

\* frames the remote side sends on an open channel
Inbound ==
  { Event("input_audio_buffer.speech_started"),
    Event("input_audio_buffer.speech_stopped"),
    Event("input_audio_buffer.committed"),
    Transcript("conversation.item.input_audio_transcription", "partial"),
    Transcript("conversation.item.input_audio_transcription.completed",
               "final"),
    Transcript("response.audio_transcript.done", "answer"),
    ResponseDone(<<MessageItem("reply"),
                   FunctionCall("getWeatherData", ArgsPlace)>>),
    ResponseDone(<<FunctionCall("getStockPrice", ArgsCut),
                   MessageItem("reply")>>),
    ResponseDone(<<FunctionCall("getBrowserLocationWeatherData", ArgsEmpty)>>),
    Event("session.created"),
    NotJson }

\* the frames among them that request a tool call
ToolRequests ==
  { ResponseDone(<<MessageItem("reply"),
                   FunctionCall("getWeatherData", ArgsPlace)>>),
    ResponseDone(<<FunctionCall("getBrowserLocationWeatherData", ArgsEmpty)>>) }

\* frames that request a lookup by place name, by place name and
\* coordinates, and by coordinates alone
GeocodeRequests ==
  { ResponseDone(<<FunctionCall("getWeatherData", ArgsPlace)>>),
    ResponseDone(<<FunctionCall("getWeatherData", ArgsBoth)>>),
    ResponseDone(<<FunctionCall("getWeatherData", ArgsCoords)>>) }

\* a message event of the channel created by attempt c
OnMessage(c, data) ==
  /\ chans[c].state = "open"
  /\ nEvents < MaxEvents
  /\ LET w == onmessage(DWorld, data)
     IN /\ Len(w.lookups) <= MaxLookups
        /\ demo' = w.demo
        /\ chat' = w.chat
        /\ lookups' = w.lookups
        /\ asked' = asked \o [i \in 1..(Len(w.lookups) - Len(lookups)) |-> c]
  /\ nEvents' = nEvents + 1
  /\ UNCHANGED <<relay, pcs, streams, chans, audios, micViz, aiViz, wxChannel, att,
                 nAtt, nSends>>

\* ---------------------------------------------- weather tool, completions
\* JSON.stringify(weatherData, null, 2) of the forecast for a coordinate pair
Forecast(lat, lon) == "{forecast " \o lat \o "," \o lon \o "}"
\* body of a forecast answer with an error status, read like any other
ForecastError(lat, lon) == "{error for " \o lat \o "," \o lon \o "}"

ToolMessageEvent(type, data) ==
  [type |-> "conversation.item.create",
   body |-> "user: Here is the " \o type \o " data: " \o data]
ToolResponseEvent(type) ==
  [type |-> "response.create",
   body |-> IF type = "weather" THEN "weather" ELSE "default"]

sendDataToAPI_NoGuard(ch, wx, type, data) ==
  IF wx = NULL
    THEN ch
    ELSE [ch EXCEPT ![wx].sent =
                       @ \o <<ToolMessageEvent(type, data),
                              ToolResponseEvent(type)>>]

sendDataToAPI_ResponseFirst(ch, wx, type, data) ==
  IF ~CanSend(ch, wx)
    THEN ch
    ELSE [ch EXCEPT ![wx].sent =
                       @ \o <<ToolResponseEvent(type),
                              ToolMessageEvent(type, data)>>]

\* sendDataToAPI(type, data), as a function of the channels; wx is the
\* module-level dataChannel
sendDataToAPI(ch, wx, type, data) ==
  IF ~CanSend(ch, wx)
    THEN ch
    ELSE [ch EXCEPT ![wx].sent =
                       @ \o <<ToolMessageEvent(type, data),
                              ToolResponseEvent(type)>>]

GeocodeAnswers == {"match", "nomatch", "error"}
ForecastAnswers == {"json", "errorjson", "error"}

GeocodeDone_KeepsArguments(l, r) ==
  /\ l \in 1..Len(lookups)
  /\ lookups[l].stage = "geocode"
  /\ r \in GeocodeAnswers
  /\ lookups' = IF r = "match"
                  THEN [lookups EXCEPT
                          ![l].stage = "forecast",
                          ![l].lat = IF @ = "null" THEN "48.85" ELSE @,
                          ![l].lon = IF @ = "null" THEN "2.35" ELSE @]
                  ELSE [lookups EXCEPT
                          ![l].stage = "failed",
                          ![l].error = IF r = "nomatch"
                                         THEN "Location not found"
                                         ELSE "NetworkError"]
  /\ UNCHANGED <<relay, asked, demo, pcs, streams, chans, audios, micViz, aiViz, chat,
                 wxChannel, att, nAtt, nSends, nEvents>>

\* the geocoding request of lookup l settled and its body was read: the
\* first match gives the coordinates, no match throws
GeocodeDone(l, r) ==
  /\ l \in 1..Len(lookups)
  /\ lookups[l].stage = "geocode"
  /\ r \in GeocodeAnswers
  /\ lookups' = IF r = "match"
                  THEN [lookups EXCEPT ![l].stage = "forecast",
                                       ![l].lat = "48.85", ![l].lon = "2.35"]
                  ELSE [lookups EXCEPT
                          ![l].stage = "failed",
                          ![l].error = IF r = "nomatch"
                                         THEN "Location not found"
                                         ELSE "NetworkError"]
  /\ UNCHANGED <<relay, asked, demo, pcs, streams, chans, audios, micViz, aiViz, chat,
                 wxChannel, att, nAtt, nSends, nEvents>>

\* the forecast request of lookup l settled and its body was read
ForecastDone(l, r) ==
  /\ l \in 1..Len(lookups)
  /\ lookups[l].stage = "forecast"
  /\ r \in ForecastAnswers
  /\ IF r = "error"
       THEN /\ lookups' = [lookups EXCEPT ![l].stage = "failed",
                                           ![l].error = "NetworkError"]
            /\ chans' = chans
       ELSE /\ lookups' = [lookups EXCEPT ![l].stage = "done"]
            /\ chans' = sendDataToAPI(chans, wxChannel, "weather",
                          IF r = "json"
                            THEN Forecast(lookups[l].lat, lookups[l].lon)
                            ELSE ForecastError(lookups[l].lat, lookups[l].lon))
  /\ UNCHANGED <<relay, asked, demo, pcs, streams, audios, micViz, aiViz, chat, wxChannel,
                 att, nAtt, nSends, nEvents>>

\* the success callback of getCurrentPosition of lookup l: getWeatherData
\* is called with the coordinates of the position
PositionDone(l) ==
  /\ l \in 1..Len(lookups)
  /\ lookups[l].stage = "position"
  /\ lookups' = [lookups EXCEPT ![l].stage = "forecast",
                                ![l].lat = "51.50", ![l].lon = "-0.12"]
  /\ UNCHANGED <<relay, asked, demo, pcs, streams, chans, audios, micViz, aiViz, chat,
                 wxChannel, att, nAtt, nSends, nEvents>>

\* ------------------------------------------------------ credential client
\* What fetch and response.json() give getEphemeralKey: settled tells
\* whether fetch resolved, ok is response.ok, json whether the body parses,
\* secret whether the parsed body has a client_secret object, value is
\* client_secret.value and message the message property of an error body.
RelayAnswer(settled, ok, json, secret, value, message) ==
  [settled |-> settled, ok |-> ok, json |-> json, secret |-> secret,
   value |-> value, message |-> message]
RelayAnswers ==
  { RelayAnswer(TRUE, TRUE, TRUE, TRUE, "ek_123", undefined),
    RelayAnswer(TRUE, TRUE, TRUE, TRUE, undefined, undefined),
    RelayAnswer(TRUE, TRUE, TRUE, TRUE, "", undefined),
    RelayAnswer(TRUE, TRUE, TRUE, FALSE, undefined, undefined),
    RelayAnswer(TRUE, TRUE, FALSE, FALSE, undefined, undefined),
    RelayAnswer(TRUE, FALSE, TRUE, FALSE, undefined, "Invalid model"),
    RelayAnswer(TRUE, FALSE, TRUE, FALSE, undefined, undefined),
    RelayAnswer(TRUE, FALSE, FALSE, FALSE, undefined, undefined),
    RelayAnswer(FALSE, FALSE, FALSE, FALSE, undefined, undefined) }

Throw(msg) == [threw |-> TRUE, value |-> undefined, message |-> msg]
Return(v)  == [threw |-> FALSE, value |-> v, message |-> undefined]

\* getEphemeralKey(), as a function of the relay's answer
getEphemeralKey(r) ==
  IF ~r.settled THEN Throw("NetworkError")
  ELSE IF ~r.json THEN Throw("SyntaxError")
  ELSE IF ~r.ok
    THEN Throw(IF Truthy(r.message) THEN r.message
               ELSE "Failed to get session key")
  ELSE IF ~r.secret THEN Throw("TypeError")
  ELSE Return(r.value)

\* getEphemeralKey settled with the relay's answer r: toggleSession either
\* reports the exception or calls setupWebRTC(token), which runs up to
\* getUserMedia
KeyReturned(a, r) ==
  /\ att[a].pc = "key"
  /\ LET k == getEphemeralKey(r)
     IN IF k.threw
          THEN /\ att' = [att EXCEPT ![a].pc = "failed", ![a].failedAt = "key",
                                     ![a].keyResp = "failed"]
               /\ demo' = [demo EXCEPT !.status =
                             Status("Connection failed: ", <<k.message>>)]
               /\ UNCHANGED <<pcs, aiViz, audios, chans>>
          ELSE /\ pcs' = [pcs EXCEPT ![a] = [NoPc EXCEPT !.state = "open"]]
               /\ aiViz' = [aiViz EXCEPT ![a].state = "created"]
               /\ audios' = [audios EXCEPT ![a].state = "attached"]
               /\ chans' = [chans EXCEPT ![a].state = "connecting"]
               /\ demo' = [demo EXCEPT !.peerConnection = a,
                             !.audioElement = a, !.dataChannel = a]
               /\ att' = [att EXCEPT ![a].pc = "gum",
                            ![a].token = k.value, ![a].keyResp = "ok",
                            ![a].calls = @ \o <<"getEphemeralKey.ok",
                                 "RTCPeerConnection", "createDataChannel",
                                 "getUserMedia">>]
  /\ UNCHANGED <<relay, asked, streams, micViz, chat, wxChannel, nAtt, nSends, lookups,
                 nEvents>>

\* ------------------------------------- weather tool, without geolocation
\* the names weatherLookup.js imports or declares
WeatherLookupNames ==
  {"CONFIG", "dataChannel", "setDataChannel", "sendDataToAPI",
   "getWeatherData", "getBrowserLocationWeatherData"}

LocationErrorMessage == "Could not access browser location. Please enable location sharing in your browser settings or provide a location name."

\* getBrowserLocationWeatherData in a browser without navigator.geolocation,
\* as a function of the channels: the else branch calls
\* sendWeatherDataToAPI, and a call of a name that is not declared throws
\* a ReferenceError before the return is reached
locationUnavailable(ch, wx) ==
  IF "sendWeatherDataToAPI" \in WeatherLookupNames
    THEN [chans |-> sendDataToAPI(ch, wx, "weather", LocationErrorMessage),
          result |-> Return(LocationErrorMessage)]
    ELSE [chans |-> ch, result |-> Throw("ReferenceError")]

\* a response.done on channel c asks for getBrowserLocationWeatherData in a
\* browser without geolocation; the call is not awaited, so the handler
\* itself returns normally
LocationUnavailable(c) ==
  /\ chans[c].state = "open"
  /\ nEvents < MaxEvents
  /\ Len(lookups) < MaxLookups
  /\ LET r == locationUnavailable(chans, wxChannel)
     IN /\ chans' = r.chans
        /\ lookups' = Append(lookups,
             [fn |-> "getBrowserLocationWeatherData",
              stage |-> IF r.result.threw THEN "failed" ELSE "done",
              lat |-> "null", lon |-> "null", locationName |-> "null",
              error |-> IF r.result.threw THEN r.result.message ELSE "none"])
  /\ asked' = Append(asked, c)
  /\ nEvents' = nEvents + 1
  /\ UNCHANGED <<relay, demo, pcs, streams, audios, micViz, aiViz, chat,
                 wxChannel, att, nAtt, nSends>>

\* ------------------------------------------------------------- visualizer
\* How far AudioVisualizer.init gets: the canvas is missing; the
\* AudioContext constructor throws; setupAudioSources throws after the
\* context was created; animate throws on its first call, after it has
\* requested the next frame; or nothing fails.
InitOutcomes == {"nocanvas", "nocontext", "nosource", "nodraw", "ok"}

\* AudioVisualizer.init(audioElement, stream): the visualizer it leaves and
\* the value it returns
init(v, o) ==
  CASE o = "nocanvas" ->
         [viz |-> [v EXCEPT !.state = "failed"], returned |-> FALSE]
    [] o = "nocontext" ->
         [viz |-> [v EXCEPT !.state = "failed"], returned |-> FALSE]
    [] o = "nosource" ->
         [viz |-> [v EXCEPT !.state = "failed", !.audioContext = TRUE],
          returned |-> FALSE]
    [] o = "nodraw" ->
         [viz |-> [v EXCEPT !.state = "failed", !.audioContext = TRUE,
                            !.animationId = TRUE, !.frame = TRUE],
          returned |-> FALSE]
    [] OTHER ->
         [viz |-> [v EXCEPT !.state = "running", !.audioContext = TRUE,
                            !.animationId = TRUE, !.frame = TRUE],
          returned |-> TRUE]

\* init is called on the visualizer made for attempt a
VisualizerInit(a, o) ==
  /\ aiViz[a].state = "none"
  /\ aiViz' = [aiViz EXCEPT ![a] = init(@, o).viz]
  /\ UNCHANGED <<relay, asked, demo, pcs, streams, chans, audios, micViz, chat,
                 wxChannel, att, nAtt, nSends, lookups, nEvents>>

\* the browser runs the requested animation frame: animate requests the
\* next one and stores its id
VisualizerFrame(a) ==
  /\ aiViz[a].frame
  /\ aiViz' = [aiViz EXCEPT ![a].animationId = TRUE, ![a].frame = TRUE]
  /\ UNCHANGED <<relay, asked, demo, pcs, streams, chans, audios, micViz, chat,
                 wxChannel, att, nAtt, nSends, lookups, nEvents>>

\* stop is called on the visualizer made for attempt a
VisualizerStop(a) ==
  /\ aiViz[a].stopCalls < MaxStops
  /\ aiViz' = [aiViz EXCEPT ![a] = StopVisualizer(@)]
  /\ UNCHANGED <<relay, asked, demo, pcs, streams, chans, audios, micViz, chat,
                 wxChannel, att, nAtt, nSends, lookups, nEvents>>

\* ------------------------------------------------------------------ relay
\* req.body after express.json(): a JSON object whose model and voice are
\* absent, empty or given.
Models == {"<undefined>", "", "gpt-4o-realtime-preview-2024-12-17"}
Voices == {"<undefined>", "", "verse"}

\* res.status(code).json(body) and res.send(body)
Response(code, body) == [status |-> code, body |-> body]

\* What the upstream sessions endpoint does with the relay's fetch: it does
\* not settle, or answers with a status and a body that is JSON or not.
UpstreamAnswer(settled, status, json, body) ==
  [settled |-> settled, status |-> status, json |-> json, body |-> body]

UpstreamAnswers ==
  { UpstreamAnswer(TRUE, 200, TRUE, "session"),
    UpstreamAnswer(TRUE, 200, FALSE, "<html>"),
    UpstreamAnswer(TRUE, 401, TRUE, "invalid_api_key"),
    UpstreamAnswer(TRUE, 400, TRUE, "invalid_model"),
    UpstreamAnswer(TRUE, 502, FALSE, "<html>"),
    UpstreamAnswer(FALSE, 0, FALSE, "") }

\* response.ok
Ok(status) == status >= 200 /\ status <= 299

\* app.post("/session"), up to the await of fetch: the body is validated,
\* and only a body with model and voice is forwarded upstream.
session_NoReturn(q, model, voice) ==
  LET r == [q EXCEPT !.pc = "fetch", !.model = model, !.voice = voice,
                     !.fetches = Append(@, [model |-> model, voice |-> voice])]
  IN IF ~Truthy(model) \/ ~Truthy(voice)
     THEN [r EXCEPT !.responses = Append(@,
             Response(400, "Missing required parameters: model and voice"))]
     ELSE r

session(q, model, voice) ==
  IF ~Truthy(model) \/ ~Truthy(voice)
  THEN [q EXCEPT !.pc = "done", !.model = model, !.voice = voice,
                 !.responses = Append(@,
                   Response(400, "Missing required parameters: model and voice"))]
  ELSE [q EXCEPT !.pc = "fetch", !.model = model, !.voice = voice,
                 !.fetches = Append(@, [model |-> model, voice |-> voice])]

upstreamSettled_AlwaysSent(q, u) ==
  [q EXCEPT !.pc = "done",
            !.responses = Append(@,
              IF ~u.settled THEN Response(500, "Internal server error")
              ELSE IF ~u.json THEN Response(500, "Internal server error")
              ELSE Response(200, u.body))]

\* app.post("/session"), after the await of fetch: the upstream error is
\* passed on with its status, the session object is sent, and whatever
\* throws (fetch rejected, body not JSON) is answered with 500.
upstreamSettled(q, u) ==
  [q EXCEPT !.pc = "done",
            !.responses = Append(@,
              IF ~u.settled THEN Response(500, "Internal server error")
              ELSE IF ~u.json THEN Response(500, "Internal server error")
              ELSE IF ~Ok(u.status) THEN Response(u.status, u.body)
              ELSE Response(200, u.body))]

\* a client posts to /session
Session(r, model, voice) ==
  /\ relay[r].pc = "idle"
  /\ relay' = [relay EXCEPT ![r] = session(@, model, voice)]
  /\ UNCHANGED <<page, asked>>

\* the relay's fetch resolves or rejects
UpstreamSettled(r, u) ==
  /\ relay[r].pc = "fetch"
  /\ relay' = [relay EXCEPT ![r] = upstreamSettled(@, u)]
  /\ UNCHANGED <<page, asked>>

\* ------------------------------------------------------------ specification
Next ==
  \/ ClickConnect
  \/ ClickClose
  \/ \E a \in Attempts, r \in KeyOk : KeyResolved(a, r)
  \/ \E a \in Attempts, r \in KeyBad : KeyRejected(a, r)
  \/ \E a \in Attempts : GumResolved(a)
  \/ \E a \in Attempts : GumRejected(a)
  \/ \E a \in Attempts : OfferResolved(a)
  \/ \E a \in Attempts : OfferRejected(a)
  \/ \E a \in Attempts : SldResolved(a)
  \/ \E a \in Attempts : SldRejected(a)
  \/ \E a \in Attempts : PostResolved(a)
  \/ \E a \in Attempts, c \in HttpErrors : PostNotOk(a, c)
  \/ \E a \in Attempts : PostRejected(a)
  \/ \E a \in Attempts : SrdResolved(a)
  \/ \E a \in Attempts : SrdRejected(a)
  \/ \E c \in Attempts : ChannelOpen(c)

\* The negotiation under every interleaving of button clicks with the
\* completions of the steps in flight.
Spec == Init /\ [][Next]_vars

\* One session at a time (the button is not clicked while an attempt is in
\* flight), with the events of a live session and the user's other actions.
NextSession ==
  \/ ((\A a \in Attempts : ~InFlight(a)) /\ ClickConnect)
  \/ ClickClose
  \/ \E a \in Attempts, r \in KeyOk : KeyResolved(a, r)
  \/ \E a \in Attempts, r \in KeyBad : KeyRejected(a, r)
  \/ \E a \in Attempts : GumResolved(a)
  \/ \E a \in Attempts : GumRejected(a)
  \/ \E a \in Attempts : OfferResolved(a)
  \/ \E a \in Attempts : OfferRejected(a)
  \/ \E a \in Attempts : SldResolved(a)
  \/ \E a \in Attempts : SldRejected(a)
  \/ \E a \in Attempts : PostResolved(a)
  \/ \E a \in Attempts, c \in HttpErrors : PostNotOk(a, c)
  \/ \E a \in Attempts : PostRejected(a)
  \/ \E a \in Attempts : SrdResolved(a)
  \/ \E a \in Attempts : SrdRejected(a)
  \/ \E c \in Attempts : ChannelOpen(c)
  \/ \E c \in Attempts : ChannelClosed(c)
  \/ \E p \in Attempts : RemoteTrack(p)
  \/ \E x \in Attempts, p \in Attempts : CanPlay(x, p)
  \/ toggleTalk

SpecSession == Init /\ [][NextSession]_vars

\* the connect button is clicked while no attempt is in flight
ClickConnectIdle ==
  /\ nAtt < MaxSessions
  /\ \A a \in Attempts : ~InFlight(a)
  /\ ClickConnect

\* One session at a time whose negotiation steps all succeed, with the
\* frames that arrive on its channel.
NextDispatch ==
  \/ ClickConnectIdle
  \/ ClickClose
  \/ \E a \in Attempts, r \in KeyOk : KeyResolved(a, r)
  \/ \E a \in Attempts : GumResolved(a)
  \/ \E a \in Attempts : OfferResolved(a)
  \/ \E a \in Attempts : SldResolved(a)
  \/ \E a \in Attempts : PostResolved(a)
  \/ \E a \in Attempts : SrdResolved(a)
  \/ \E c \in Attempts : ChannelOpen(c)
  \/ \E c \in Attempts : ChannelClosed(c)
  \/ \E c \in Attempts, data \in Inbound : OnMessage(c, data)

SpecDispatch == Init /\ [][NextDispatch]_vars

\* The same sessions with the chat input, the frames that request a tool
\* call and the completions of the lookups they start.
NextTool ==
  \/ ClickConnectIdle
  \/ ClickClose
  \/ \E a \in Attempts, r \in KeyOk : KeyResolved(a, r)
  \/ \E a \in Attempts : GumResolved(a)
  \/ \E a \in Attempts : OfferResolved(a)
  \/ \E a \in Attempts : SldResolved(a)
  \/ \E a \in Attempts : PostResolved(a)
  \/ \E a \in Attempts : SrdResolved(a)
  \/ \E c \in Attempts : ChannelOpen(c)
  \/ \E c \in Attempts : ChannelClosed(c)
  \/ \E m \in Messages : handleSend(m)
  \/ \E c \in Attempts, data \in ToolRequests : OnMessage(c, data)
  \/ \E l \in 1..MaxLookups, r \in GeocodeAnswers : GeocodeDone(l, r)
  \/ \E l \in 1..MaxLookups, r \in ForecastAnswers : ForecastDone(l, r)
  \/ \E l \in 1..MaxLookups : PositionDone(l)

SpecTool == Init /\ [][NextTool]_vars

\* One session at a time, with every answer the relay can give to the
\* credential request; the later negotiation steps succeed.
NextKey ==
  \/ ((\A a \in Attempts : ~InFlight(a)) /\ ClickConnect)
  \/ ClickClose
  \/ \E a \in Attempts, r \in RelayAnswers : KeyReturned(a, r)
  \/ \E a \in Attempts : GumResolved(a)
  \/ \E a \in Attempts : OfferResolved(a)
  \/ \E a \in Attempts : SldResolved(a)
  \/ \E a \in Attempts : PostResolved(a)
  \/ \E a \in Attempts : SrdResolved(a)
  \/ \E c \in Attempts : ChannelOpen(c)

SpecKey == Init /\ [][NextKey]_vars

\* The relay alone: requests arrive in any order and overlap, and every
\* upstream fetch settles (it resolves, or it rejects at the latest when
\* the connection times out).
NextRelay ==
  \/ \E r \in Requests, model \in Models, voice \in Voices :
       Session(r, model, voice)
  \/ \E r \in Requests, u \in UpstreamAnswers : UpstreamSettled(r, u)

SpecRelay ==
  /\ Init
  /\ [][NextRelay]_vars
  /\ \A r \in Requests :
       WF_vars(\E u \in UpstreamAnswers : UpstreamSettled(r, u))

\* Sessions that follow one another on the same page, with the frames that
\* request a tool call and the completions of the lookups they start.
NextHandover ==
  \/ ((\A a \in Attempts : ~InFlight(a)) /\ ClickConnect)
  \/ ClickClose
  \/ \E a \in Attempts, r \in KeyOk : KeyResolved(a, r)
  \/ \E a \in Attempts : GumResolved(a)
  \/ \E a \in Attempts : OfferResolved(a)
  \/ \E a \in Attempts : SldResolved(a)
  \/ \E a \in Attempts : PostResolved(a)
  \/ \E a \in Attempts : SrdResolved(a)
  \/ \E c \in Attempts : ChannelOpen(c)
  \/ \E c \in Attempts : ChannelClosed(c)
  \/ \E c \in Attempts, data \in ToolRequests : OnMessage(c, data)
  \/ \E l \in 1..MaxLookups, r \in GeocodeAnswers : GeocodeDone(l, r)
  \/ \E l \in 1..MaxLookups, r \in ForecastAnswers : ForecastDone(l, r)
  \/ \E l \in 1..MaxLookups : PositionDone(l)

SpecHandover == Init /\ [][NextHandover]_vars

\* One session at a time whose frames request getWeatherData lookups, with
\* every answer of the geocoding and the forecast request.
NextGeocode ==
  \/ ClickConnectIdle
  \/ ClickClose
  \/ \E a \in Attempts, r \in KeyOk : KeyResolved(a, r)
  \/ \E a \in Attempts : GumResolved(a)
  \/ \E a \in Attempts : OfferResolved(a)
  \/ \E a \in Attempts : SldResolved(a)
  \/ \E a \in Attempts : PostResolved(a)
  \/ \E a \in Attempts : SrdResolved(a)
  \/ \E c \in Attempts : ChannelOpen(c)
  \/ \E c \in Attempts : ChannelClosed(c)
  \/ \E c \in Attempts, data \in GeocodeRequests : OnMessage(c, data)
  \/ \E l \in 1..MaxLookups, r \in GeocodeAnswers : GeocodeDone(l, r)
  \/ \E l \in 1..MaxLookups, r \in ForecastAnswers : ForecastDone(l, r)

SpecGeocode == Init /\ [][NextGeocode]_vars

\* Sessions that follow one another, whose frames ask for the weather at
\* the browser's location, in browsers with and without geolocation.
NextLocation ==
  \/ ((\A a \in Attempts : ~InFlight(a)) /\ ClickConnect)
  \/ ClickClose
  \/ \E a \in Attempts, r \in KeyOk : KeyResolved(a, r)
  \/ \E a \in Attempts : GumResolved(a)
  \/ \E a \in Attempts : OfferResolved(a)
  \/ \E a \in Attempts : SldResolved(a)
  \/ \E a \in Attempts : PostResolved(a)
  \/ \E a \in Attempts : SrdResolved(a)
  \/ \E c \in Attempts : ChannelOpen(c)
  \/ \E c \in Attempts : ChannelClosed(c)
  \/ \E c \in Attempts, data \in ToolRequests : OnMessage(c, data)
  \/ \E c \in Attempts : LocationUnavailable(c)
  \/ \E l \in 1..MaxLookups, r \in GeocodeAnswers : GeocodeDone(l, r)
  \/ \E l \in 1..MaxLookups, r \in ForecastAnswers : ForecastDone(l, r)
  \/ \E l \in 1..MaxLookups : PositionDone(l)

SpecLocation == Init /\ [][NextLocation]_vars

\* The visualizers alone: init with each of its outcomes, the animation
\* frames, and stop called any number of times at any moment.
NextVisualizer ==
  \/ \E a \in Attempts, o \in InitOutcomes : VisualizerInit(a, o)
  \/ \E a \in Attempts : VisualizerFrame(a)
  \/ \E a \in Attempts : VisualizerStop(a)

SpecVisualizer == Init /\ [][NextVisualizer]_vars

\* The negotiation under every interleaving of clicks on the connect
\* button, clicks on the mic button, focus on the chat input and completions
\* of the steps in flight.
NextMic ==
  \/ Next
  \/ toggleTalk
  \/ FocusChatInput

SpecMic == Init /\ [][NextMic]_vars



\* ===================================================================
\* Properties
\* ===================================================================
IsPrefix(s, t) == Len(s) <= Len(t) /\ s = SubSeq(t, 1, Len(s))
Occurrences(s, x) == Cardinality({i \in 1..Len(s) : s[i] = x})
Has(s, x) == \E i \in 1..Len(s) : s[i] = x

\* the awaits of an attempt that come after the transport was created
AfterTransport == {"gum", "offer", "sld", "post", "srd"}

\* C1: when a connect attempt fails after the transport was created, at the
\* moment the failure is reported the session is fully torn down: the
\* capture tracks it acquired are stopped and mediaStream, peerConnection,
\* dataChannel and audioElement are null.
TornDown(a) ==
  /\ demo.mediaStream = NULL
  /\ demo.peerConnection = NULL
  /\ demo.dataChannel = NULL
  /\ demo.audioElement = NULL
  /\ streams[a].state # "live"

C1_TornDownOnFailure ==
  [][\A a \in Attempts :
       (att[a].pc \in AfterTransport /\ att'[a].pc = "failed")
          => TornDown(a)']_vars

\* C2: a negotiation step that completes after closeConnection ran discards
\* its result: it stores no media stream, attaches no track, applies no
\* descriptor, does not set isConnected, and leaves the capture device
\* released.
C2_LateCompletionDiscarded ==
  [][\A a \in Attempts :
       (att[a].stale /\ att[a].pc \in AfterTransport /\ att'[a].pc # att[a].pc)
          => /\ demo'.mediaStream = demo.mediaStream
             /\ demo'.isConnected = demo.isConnected
             /\ pcs' = pcs
             /\ streams'[a].state # "live"]_vars

\* C3: at every moment at most one peer connection and at most one capture
\* stream are live (created and not yet closed or stopped).
LivePcs == {p \in Attempts : pcs[p].state = "open"}
LiveStreams == {x \in Attempts : streams[x].state = "live"}

C3_SingleLiveSession ==
  Cardinality(LivePcs) <= 1 /\ Cardinality(LiveStreams) <= 1

\* C4: when the credential fetch of an attempt fails, that attempt ends
\* there: it calls nothing but getEphemeralKey, creates no peer connection,
\* data channel, audio element or capture stream, POSTs no offer, and the
\* failing step leaves isConnected as it was.
C4_KeyFailureStopsAttempt ==
  [][\A a \in Attempts :
       att'[a].keyResp = "failed"
         => /\ att'[a].pc = "failed"
            /\ att'[a].calls = <<"getEphemeralKey">>
            /\ pcs'[a].state = "none"
            /\ chans'[a].state = "none"
            /\ audios'[a].state = "none"
            /\ streams'[a].state = "none"
            /\ (att[a].pc = "key" =>
                  /\ demo'.isConnected = demo.isConnected
                  /\ demo'.peerConnection = demo.peerConnection
                  /\ demo'.mediaStream = demo.mediaStream)]_vars

C4_Witness ==
  \E a \in Attempts :
    /\ att[a].keyResp = "failed"
    /\ att[a].pc = "failed"
    /\ demo.status = <<"Connection failed: ", "Failed to get session key">>

\* C5: over any sequence of connect, open, close and reconnect the greeting
\* is sent at most once, and the latch hasWelcomed is set exactly when it
\* has been sent (nothing resets it).
GreetingCount ==
  Cardinality(UNION {{<<c, i>> : i \in {j \in 1..Len(chans[c].sent) :
                                           chans[c].sent[j] = WelcomeEvent}} :
                     c \in Attempts})

C5_GreetingOnce ==
  GreetingCount <= 1 /\ (demo.hasWelcomed <=> GreetingCount = 1)

\* a second channel has opened after the first one greeted and was closed
C5_Witness ==
  \E c, e \in Attempts :
    /\ c # e
    /\ chans[c].state = "closing" /\ Has(chans[c].sent, WelcomeEvent)
    /\ chans[e].state = "open" /\ Has(chans[e].sent, SetInstructions)

\* C6: closeConnection is idempotent: applied to the state a close has left,
\* it stops no track, closes no connection or channel again (the call
\* counters of the objects do not move) and changes no field.
C6_CloseIdempotent ==
  closeConnection(closeConnection(World)) = closeConnection(World)

\* a close has just released a session that held every kind of resource
C6_Witness ==
  /\ demo.status = <<"Not connected">>
  /\ demo.peerConnection = NULL
  /\ \E a \in Attempts :
       /\ pcs[a].closeCalls = 1
       /\ streams[a].stopCalls = 1
       /\ chans[a].closeCalls = 1
       /\ micViz[a].stopCalls = 1

\* C7: closeConnection on a connected session stops every track of the
\* media stream, closes the peer connection and the data channel, and
\* leaves peerConnection, mediaStream, dataChannel, audioElement and both
\* visualizers null with isConnected = false and isTalking = true.
C7_CloseReleases ==
  [][(demo.isConnected /\ ~demo'.isConnected)
       => /\ demo.mediaStream # NULL
          /\ streams'[demo.mediaStream].state = "stopped"
          /\ demo.peerConnection # NULL
          /\ pcs'[demo.peerConnection].state = "closed"
          /\ demo.dataChannel # NULL
          /\ chans'[demo.dataChannel].state \in {"closing", "closed"}
          /\ demo'.peerConnection = NULL
          /\ demo'.mediaStream = NULL
          /\ demo'.dataChannel = NULL
          /\ demo'.audioElement = NULL
          /\ demo'.micVisualizer = NULL
          /\ demo'.aiVisualizer = NULL
          /\ demo'.isTalking]_vars

\* a session with a running AI visualizer and a muted microphone was closed
C7_Witness ==
  /\ demo.status = <<"Not connected">>
  /\ \E a \in Attempts :
       /\ aiViz[a].stopCalls = 1
       /\ micViz[a].stopCalls = 1
       /\ streams[a].state = "stopped"
       /\ ~streams[a].enabled
       /\ chans[a].closeCalls = 1

\* C8: when getUserMedia rejects, the session ends Closed: transport and
\* channel released, isConnected false, a microphone error reported, no
\* track of the attempt attached to any peer connection, no offer created
\* or POSTed.
C8_GumRejectedEndsClosed ==
  [][\A a \in Attempts :
       (att[a].pc = "gum" /\ att'[a].failedAt = "gum")
          => /\ pcs'[a].state = "closed"
             /\ chans'[a].state \notin {"connecting", "open"}
             /\ demo'.peerConnection = NULL
             /\ demo'.dataChannel = NULL
             /\ ~demo'.isConnected
             /\ demo'.status = <<"Connection failed: ", "NotAllowedError">>
             /\ \A p \in Attempts : a \notin pcs'[p].tracks
             /\ ~Has(att'[a].calls, "createOffer")
             /\ ~Has(att'[a].calls, "POST")]_vars

\* C9: the steps of one attempt happen in the order credential, media,
\* addTrack, createOffer, setLocalDescription, POST, 2xx,
\* setRemoteDescription, isConnected; each starts only after the one
\* before it has completed and none is skipped.
NegotiationOrder ==
  <<"getEphemeralKey", "getEphemeralKey.ok", "RTCPeerConnection",
    "createDataChannel", "getUserMedia", "getUserMedia.ok", "addTrack",
    "createOffer", "createOffer.ok", "setLocalDescription",
    "setLocalDescription.ok", "POST", "POST.2xx", "setRemoteDescription",
    "setRemoteDescription.ok", "isConnected">>

C9_StepsInOrder ==
  /\ \A a \in Attempts :
       /\ IsPrefix(att[a].calls, NegotiationOrder)
       /\ (att[a].pc = "done" => att[a].calls = NegotiationOrder)
  /\ \A p \in Attempts : pcs[p].remoteDesc => pcs[p].localDesc # NULL
  /\ demo.isConnected => \E a \in Attempts : att[a].calls = NegotiationOrder

C9_Witness ==
  \E a \in Attempts : att[a].pc = "done" /\ demo.isConnected

C11_CredentialUsedOnce ==
  \A a \in Attempts :
    (att[a].keyResp = "ok" /\ att[a].pc \in {"done", "failed"})
       => Occurrences(att[a].calls, "POST") = 1

\* C11 (amended): each connect attempt issues at most one credential request,
\* at most one getUserMedia and at most one offer POST over its whole life,
\* so none of them is issued again after the attempt failed; the offer POST
\* is made only with the credential the attempt itself obtained, exactly
\* once in an attempt that connects and not at all in an attempt that
\* failed before the offer exchange; the credential is not a field of the
\* instance.
RequestsAtMostOnce(a) ==
  LET posts == Occurrences(att[a].calls, "POST")
  IN /\ Occurrences(att[a].calls, "getEphemeralKey") <= 1
     /\ Occurrences(att[a].calls, "getUserMedia") <= 1
     /\ posts <= 1
     /\ posts = 1 => (att[a].keyResp = "ok" /\ att[a].token = "ek")
     /\ att[a].pc = "done" => posts = 1
     /\ att[a].failedAt \in {"key", "gum", "addTrack", "createOffer",
                             "setLocalDescription"} => posts = 0

C11_RequestsOncePerAttempt ==
  /\ \A a \in Attempts : RequestsAtMostOnce(a)
  /\ DOMAIN demo = DOMAIN InitDemo

C11_Witness ==
  \E a, b \in Attempts :
    /\ att[a].pc = "failed" /\ att[a].postResp = "non2xx"
    /\ att[b].pc = "done" /\ Occurrences(att[b].calls, "POST") = 1

\* the frames of t that come after its prefix s
Suffix(s, t) == SubSeq(t, Len(s) + 1, Len(t))

\* C12: no outbound frame is ever sent on a data channel that is not open:
\* a step adds frames only to a channel that is open when the step ends
\* (so nothing is sent on a channel that is still connecting after
\* setRemoteDescription completed, nor by handleChatMessage or sendDataToAPI
\* on an absent or non-open channel), and the greeting and the
\* session.update are added only by the step in which a channel opens.
C12_SendOnlyWhenOpen ==
  [][\A c \in Attempts :
       /\ IsPrefix(chans[c].sent, chans'[c].sent)
       /\ chans'[c].sent # chans[c].sent
            => /\ chans'[c].state = "open"
               /\ (Has(Suffix(chans[c].sent, chans'[c].sent), WelcomeEvent)
                     \/ Has(Suffix(chans[c].sent, chans'[c].sent),
                            SetInstructions))
                    => \E o \in Attempts : /\ chans[o].state = "connecting"
                                            /\ chans'[o].state = "open"]_vars

\* a typed message was dropped because the channel was not open, and a tool
\* result was sent on an open channel
C12_Witness ==
  /\ nSends = 1
  /\ \A c \in Attempts : ~Has(chans[c].sent, TextResponseEvent)
  /\ \E c \in Attempts : /\ Has(chans[c].sent, SetInstructions)
                          /\ Has(chans[c].sent, ToolResponseEvent("weather"))

\* events whose type is none of the seven routed types, with the payloads
\* of routed events
Unrouted ==
  { Event("session.created"),
    Event("response.audio.delta"),
    Event(undefined),
    Transcript("conversation.item.input_audio_transcription.delta", "final"),
    Transcript("response.audio_transcript.delta", "answer"),
    [Event("response.created") EXCEPT
       !.output = <<MessageItem("reply"),
                    FunctionCall("getWeatherData", ArgsPlace)>>],
    [Event("response.output_item.done") EXCEPT
       !.output = <<FunctionCall("getStockPrice", ArgsCut)>>] }

\* C13: whatever events were received before, an event whose type is not
\* one of the seven routed types changes no dispatcher-visible state (chat
\* entries, status text, session fields), sends no frame, starts no tool
\* call, and the handler does not throw.
C13_UnroutedIgnored ==
  \A u \in Unrouted : onmessage(DWorld, u) = DWorld

C13_Witness ==
  /\ nEvents = 3
  /\ Len(chat.messages) = 1
  /\ Len(lookups) = 1
  /\ demo.status = <<"User speaking">>
  /\ \A u \in Unrouted : onmessage(DWorld, u) = DWorld

ChannelIsOpen == \E c \in Attempts : chans[c].state = "open"

\* C14: a frame whose data is not valid JSON does not crash the dispatcher:
\* the handler returns without throwing and changes no state.
C14_MalformedDropped ==
  ChannelIsOpen => onmessage(DWorld, NotJson) = DWorld

\* texts of a user transcript entry that is not final yet
PartialTexts == {"Speaking...", "Processing speech...", "partial",
                 "User is speaking..."}
PartialEntries(c) ==
  {i \in 1..Len(c.messages) :
     c.messages[i].sender = "user" /\ c.messages[i].text \in PartialTexts}
Latest(S) == CHOOSE i \in S : \A j \in S : j <= i

\* C15: conversation.item.input_audio_transcription.completed replaces the
\* text of the most recent partial or placeholder user transcript entry and
\* appends no entry, also when assistant entries were added after it.
C15_CompletedReplaces ==
  PartialEntries(chat) # {} =>
    LET w == onmessage(DWorld,
               Transcript("conversation.item.input_audio_transcription.completed",
                          "final"))
    IN /\ Len(w.chat.messages) = Len(chat.messages)
       /\ w.chat.messages[Latest(PartialEntries(chat))].text = "final"

\* output items a response.done can carry: messages with and without text,
\* calls of the declared tools with arguments that are JSON objects, and
\* items of another type
DeclaredTools == {"getWeatherData", "getBrowserLocationWeatherData"}
WellFormedItems ==
  {MessageItem(s) : s \in {"reply", "more", ""}}
    \cup {FunctionCall("getWeatherData", s) : s \in {ArgsPlace, ArgsCoords}}
    \cup {FunctionCall("getBrowserLocationWeatherData", ArgsEmpty),
          [MessageItem("reply") EXCEPT !.type = "function_call_output"]}
SeqsUpTo(S, n) == UNION {[1..k -> S] : k \in 0..n}
Outputs == SeqsUpTo(WellFormedItems, MaxItems)

HasText(item) == item.type = "message" /\ Truthy(item.text)
IsCall(item) == item.type = "function_call"
AiEntry(item) == [text |-> item.text, sender |-> "ai"]

\* lookup lk is the call that function_call item asks for
IsCallOf(lk, item) ==
  /\ lk.fn = item.name
  /\ item.name = "getWeatherData" =>
       LET a == JSONparse(item.arguments)
       IN /\ lk.lat = Default(a.lat)
          /\ lk.lon = Default(a.lon)
          /\ lk.locationName = Default(a.locationName)

\* C16: for a response.done event the dispatcher goes through
\* response.output in order, appends exactly one assistant entry per message
\* item that carries text and starts exactly one tool call per function_call
\* item of a declared tool, with the arguments decoded from the item's JSON
\* arguments string.
C16_OutputItemsHandled ==
  ChannelIsOpen => \A items \in Outputs :
    LET w == onmessage(DWorld, ResponseDone(items))
        msgs == SelectSeq(items, HasText)
        calls == SelectSeq(items, IsCall)
    IN /\ ~w.threw
       /\ w.chat.messages =
            chat.messages \o [k \in 1..Len(msgs) |-> AiEntry(msgs[k])]
       /\ Len(w.lookups) = Len(lookups) + Len(calls)
       /\ SubSeq(w.lookups, 1, Len(lookups)) = lookups
       /\ \A k \in 1..Len(calls) :
            IsCallOf(w.lookups[Len(lookups) + k], calls[k])
       /\ w.demo = demo
       /\ w.chans = chans

\* a response.done with one message item and one function_call item was
\* received: one assistant entry, one call with the decoded location name
C16_Witness ==
  /\ nEvents = 1
  /\ chat.messages = <<[text |-> "reply", sender |-> "ai"]>>
  /\ Len(lookups) = 1
  /\ lookups[1].fn = "getWeatherData"
  /\ lookups[1].locationName = "Paris"

\* function_call items that name no declared tool, with any arguments string
UnknownCalls == {FunctionCall("getStockPrice", s) : s \in ArgStrings}
IsKnown(item) == ~(IsCall(item) /\ item.name \notin DeclaredTools)
OutputsWithUnknown == SeqsUpTo(WellFormedItems \cup UnknownCalls, MaxItems)

\* C17: a function_call item whose name is not a declared tool is ignored,
\* whatever its arguments string is: the handler does not throw, starts no
\* lookup and sends no frame for it, and handles the other items of the
\* same response.done as if the item were not there.
C17_UnknownToolIgnored ==
  ChannelIsOpen =>
    \A items \in OutputsWithUnknown :
      onmessage(DWorld, ResponseDone(items))
        = onmessage(DWorld, ResponseDone(SelectSeq(items, IsKnown)))

\* lookup l hands its result to sendDataToAPI in this step
Completes(l) ==
  /\ l \in 1..Len(lookups)
  /\ lookups[l].stage = "forecast"
  /\ lookups'[l].stage = "done"
ToolFrames(s) ==
  SelectSeq(s, LAMBDA f : f \in {ToolResponseEvent("weather"),
                                  ToolResponseEvent("other")}
                           \/ (f.type = "conversation.item.create"
                                /\ f # MessageEvent("hello")))

\* C18: when a tool lookup completes after the data channel has closed, or
\* while none was ever set, sendDataToAPI sends no frame and does not
\* throw: the lookup ends normally and no channel changes.
C18_LateResultDropped ==
  [][/\ sendDataToAPI(chans, NULL, "weather", Forecast("48.85", "2.35")) = chans
     /\ \A l \in 1..MaxLookups :
          (Completes(l) /\ ~CanSend(chans, wxChannel)) => chans' = chans]_vars

\* a lookup has completed on a channel that was closed, and nothing was sent
C18_Witness ==
  /\ wxChannel # NULL
  /\ chans[wxChannel].state \in {"closing", "closed"}
  /\ \E l \in 1..Len(lookups) : lookups[l].stage = "done"
  /\ ToolFrames(chans[wxChannel].sent) = <<>>

\* lookup l ends by an exception in this step
Fails(l) ==
  /\ l \in 1..Len(lookups)
  /\ lookups[l].stage \in {"geocode", "forecast"}
  /\ lookups'[l].stage = "failed"
\* the texts getWeatherData can hand over for lookup l
Results(l) == {Forecast(lookups[l].lat, lookups[l].lon),
               ForecastError(lookups[l].lat, lookups[l].lon)}

Opens(c) == chans[c].state = "connecting" /\ chans'[c].state = "open"
IsSessionUpdate(f) == f.type = "session.update"

\* C20: on every channel-open exactly one session.update frame is sent; it
\* carries the configured turn-detection parameters unchanged, the
\* response-length cap, the declared tool list and the transcription model;
\* when the greeting is sent on that open it comes before the
\* session.update.
C20_SessionUpdateOnOpen ==
  [][\A c \in Attempts :
       Opens(c) =>
         LET new == Suffix(chans[c].sent, chans'[c].sent)
             ups == SelectSeq(new, IsSessionUpdate)
         IN /\ Len(ups) = 1
            /\ ups[1].session.turn_detection = CONFIG_API.TURN_DETECTION
            /\ ups[1].session.tools = tools
            /\ ups[1].session.input_audio_transcription.model = "whisper-1"
            /\ "max_output_tokens" \in DOMAIN ups[1].session
            /\ Has(new, WelcomeEvent) => new = <<WelcomeEvent, ups[1]>>]_vars

\* C21: getEphemeralKey throws whenever the relay answers non-2xx and
\* whenever a 2xx answer lacks the credential (client_secret missing, or
\* present without a value): an attempt that went on to the negotiation
\* holds a credential that is neither undefined nor empty.
C21_NoUndefinedCredential ==
  \A a \in Attempts :
    att[a].pc \notin {"idle", "key", "failed"} \/ att[a].keyResp = "ok"
      => Truthy(att[a].token)

\* a connect attempt that fails in this step, and a channel that closes
\* while open in this step, write their status text
SessionFailuresShown ==
  /\ \A a \in Attempts :
       (att[a].pc # "failed" /\ att'[a].pc = "failed")
          => /\ Len(demo'.status) >= 2
             /\ Head(demo'.status) = "Connection failed: "
  /\ \A c \in Attempts :
       (chans[c].state = "open" /\ chans'[c].state = "closed")
          => demo'.status = <<"Disconnected from Realtime API">>

\* C22: every failure updates the status indicator with a text describing
\* it: a failed connect attempt (credential, microphone, negotiation) shows
\* 'Connection failed: ...', a channel closed while open shows
\* 'Disconnected from Realtime API', and a weather lookup that fails writes
\* a status text of its own.
C22_FailuresShown ==
  [][/\ SessionFailuresShown
     /\ \A l \in 1..MaxLookups :
          Fails(l) => demo'.status # demo.status]_vars

\* the handler of request r has been entered with a body lacking model or
\* voice
LacksParameter(r) ==
  relay[r].pc # "idle" /\ (~Truthy(relay[r].model) \/ ~Truthy(relay[r].voice))

\* C23: a POST /session whose body lacks model or voice is answered with
\* status 400 and an error body and causes no request to the upstream
\* endpoint; no request is answered twice, a handler that has finished has
\* answered exactly once, and every request received is eventually answered.
C23_RelayAnswersOnce ==
  /\ [](\A r \in Requests :
         /\ LacksParameter(r)
              => /\ relay[r].responses =
                      <<Response(400, "Missing required parameters: model and voice")>>
                 /\ relay[r].fetches = <<>>
         /\ Len(relay[r].responses) <= 1
         /\ relay[r].pc = "done" => Len(relay[r].responses) = 1)
  /\ \A r \in Requests :
       (relay[r].pc # "idle") ~> (Len(relay[r].responses) = 1)

\* one request was refused for its body while another was forwarded and
\* answered with the upstream's error
C23_Witness ==
  \E r, q \in Requests :
    /\ LacksParameter(r) /\ relay[r].pc = "done"
    /\ ~LacksParameter(q) /\ relay[q].pc = "done"
    /\ relay[q].responses = <<Response(401, "invalid_api_key")>>

\* C24: chat history persists across sessions: the step that closes a
\* session leaves every chat entry in place, so that the entries are still
\* shown when the next session starts.
C24_HistoryKept ==
  [][(demo.isConnected /\ ~demo'.isConnected)
       => IsPrefix(chat.messages, chat'.messages)]_vars

\* C25: a tool result is never delivered to a session other than the one
\* that requested it: when a lookup completes, no channel but the one whose
\* function_call started it is sent a frame.
C25_ResultToRequester ==
  [][\A l \in 1..MaxLookups :
       Completes(l)
         => \A c \in Attempts :
              c # asked[l] => chans'[c].sent = chans[c].sent]_vars

\* C26: whenever isConnected is true, peerConnection, mediaStream and
\* dataChannel are all set and were all created by the same connect attempt.
C26_ConnectedIsWhole ==
  demo.isConnected
    => /\ demo.peerConnection # NULL
       /\ demo.mediaStream # NULL
       /\ demo.dataChannel # NULL
       /\ demo.mediaStream = demo.peerConnection
       /\ demo.dataChannel = demo.peerConnection

\* the status text after frame d is handled while the status text is s,
\* as the turn events project onto it
TurnStatus(d, s) ==
  IF ~d.json THEN s
  ELSE IF d.type = "input_audio_buffer.speech_started"
    THEN <<"User speaking">>
  ELSE IF d.type = "input_audio_buffer.speech_stopped"
    THEN <<"Speech stopped">>
  ELSE IF d.type = "input_audio_buffer.committed"
    THEN <<"Processing speech...">>
  ELSE IF /\ d.type = "conversation.item.input_audio_transcription.completed"
          /\ d.transcript \notin {undefined, ""}
    THEN <<"Connected">>
  ELSE s

\* the frames of a session, with the transcriptions that carry no text
TurnFrames ==
  Inbound \cup Unrouted \cup
  { Transcript("conversation.item.input_audio_transcription.completed", ""),
    Event("conversation.item.input_audio_transcription.completed"),
    Event("conversation.item.input_audio_transcription"),
    Event("response.audio_transcript.done") }

\* C27: the status indicator follows the most recent turn event:
\* speech_started shows 'User speaking', speech_stopped 'Speech stopped',
\* input_audio_buffer.committed 'Processing speech...', a completed
\* transcription with a non-empty transcript 'Connected'; every other frame
\* leaves the status text as it was.
C27_StatusFollowsTurn ==
  ChannelIsOpen
    => \A d \in TurnFrames :
         onmessage(DWorld, d).demo.status = TurnStatus(d, demo.status)

\* three frames were handled, the last turn event among them a commit
C27_Witness ==
  /\ ChannelIsOpen
  /\ nEvents = 3
  /\ demo.status = <<"Processing speech...">>
  /\ Len(chat.messages) = 2

\* number of user entries shown
UserEntries(c) == Len(SelectSeq(c.messages, LAMBDA m : m.sender = "user"))

\* the frames of a voice turn that follow its speech_started and precede its
\* final transcript
RewritingFrames ==
  { Event("input_audio_buffer.committed"),
    Transcript("conversation.item.input_audio_transcription", "partial"),
    Event("conversation.item.input_audio_transcription") }

\* C28: each voice turn yields exactly one user entry: speech_started
\* appends one user entry, and input_audio_buffer.committed and the partial
\* transcriptions append none, so that the user entries of voice turns are
\* as many as the speech_started events received.
C28_OneEntryPerTurn ==
  ChannelIsOpen
    => /\ UserEntries(onmessage(DWorld,
             Event("input_audio_buffer.speech_started")).chat)
            = UserEntries(chat) + 1
       /\ \A d \in RewritingFrames :
            UserEntries(onmessage(DWorld, d).chat) = UserEntries(chat)

\* C29: every user entry that handleSend adds to the chat was also sent: the
\* step that shows the typed message as a user entry appends a
\* conversation.item.create with that text and then a response.create to a
\* channel, so that a message typed while no channel is open is not shown.
C29_ShownIsSent ==
  [][\A m \in Messages :
       (nSends' = nSends + 1 /\ chat' = addMessage(chat, m, "user"))
         => \E c \in Attempts :
              /\ IsPrefix(chans[c].sent, chans'[c].sent)
              /\ Suffix(chans[c].sent, chans'[c].sent)
                   = <<MessageEvent(m), TextResponseEvent>>]_vars

\* C30: handleChatMessage on an open channel sends exactly two frames, in
\* this order: a conversation.item.create with a user-role input_text item
\* holding the message, then a response.create whose modalities are text
\* only; it sends on no other channel and changes no session field.
C30_TextTurn ==
  [][\A m \in Messages :
       (/\ nSends' = nSends + 1
        /\ chat' = addMessage(chat, m, "user")
        /\ CanSend(chans, demo.dataChannel))
         => /\ chans' = [chans EXCEPT ![demo.dataChannel].sent = @ \o
                 << [type |-> "conversation.item.create", role |-> "user",
                     content |-> "input_text", body |-> m],
                    [type |-> "response.create", body |-> "text",
                     modalities |-> <<"text">>] >>]
            /\ demo' = demo]_vars

\* a typed message was sent on the open channel of a connected session
C30_Witness ==
  /\ nSends = 1
  /\ demo.isConnected
  /\ CanSend(chans, demo.dataChannel)
  /\ Len(chans[demo.dataChannel].sent) >= 2
  /\ chans[demo.dataChannel].sent[Len(chans[demo.dataChannel].sent)]
       = TextResponseEvent

\* a step that flips isTalking while the session stays as connected as it
\* was: a click on the mic button
MicToggled ==
  demo'.isTalking # demo.isTalking /\ demo'.isConnected = demo.isConnected

\* C31: whenever a capture stream is held its track's enabled flag equals
\* isTalking, and whenever the session is connected the mic button reads
\* 'Mute Mic' exactly when isTalking is true; a toggle happens only while a
\* stream is held and flips isTalking, the track and the button text
\* together, so that two toggles in a row restore all three. This holds
\* across close, reconnect and failed connect attempts.
C31_MicFollowsTalking ==
  /\ [](/\ demo.mediaStream # NULL
             => streams[demo.mediaStream].enabled = demo.isTalking
        /\ demo.isConnected
             => (demo.micText = "Mute Mic" <=> demo.isTalking))
  /\ [][MicToggled
          => /\ demo.mediaStream # NULL
             /\ demo'.mediaStream = demo.mediaStream
             /\ streams'[demo.mediaStream].enabled
                  = ~streams[demo.mediaStream].enabled
             /\ demo'.micText # demo.micText
             /\ demo'.micText \in {"Mute Mic", "Unmute Mic"}]_vars

\* C32: a remote-track event or a canplay callback delivered after
\* closeConnection reactivates nothing: while audioElement is null (no
\* session holds an audio element) no step sets aiVisualizer and no step
\* starts the animation or the audio context of a visualizer.
C32_LateAudioIgnored ==
  [][demo.audioElement = NULL
       => /\ demo'.aiVisualizer \in {NULL, demo.aiVisualizer}
          /\ \A p \in Attempts :
               /\ aiViz'[p].state = "running" => aiViz[p].state = "running"
               /\ aiViz'[p].audioContext => aiViz[p].audioContext]_vars

\* C33: focusing the chat input while the session is connected and the
\* microphone is unmuted mutes it (isTalking false, track disabled);
\* focusing it while the microphone is muted, or while the mic button is
\* disabled, changes nothing: focus never unmutes.
C33_FocusMutes ==
  LET f == focus(demo, streams)
  IN /\ (demo.isConnected /\ demo.isTalking)
          => /\ ~f.demo.isTalking
             /\ demo.mediaStream # NULL
             /\ ~f.streams[demo.mediaStream].enabled
     /\ (~demo.isTalking \/ demo.micDisabled)
          => f = [demo |-> demo, streams |-> streams]

\* the response the relay gives to request r when its fetch settles as u
Answer(r, u) ==
  LET q == upstreamSettled(relay[r], u)
  IN q.responses[Len(q.responses)]

\* C34: when the upstream endpoint answers with a non-2xx status the relay
\* answers with that same status and the upstream error body, never with a
\* 2xx; a 2xx with the session object is given only when upstream answered
\* 2xx; an exception while the request is handled yields 500 with an error
\* body.
C34_UpstreamRelayed ==
  \A r \in Requests :
    relay[r].pc = "fetch"
      => \A u \in UpstreamAnswers :
           /\ (u.settled /\ ~Ok(u.status))
                => /\ Answer(r, u) = Response(u.status, u.body)
                   /\ ~Ok(Answer(r, u).status)
           /\ Ok(Answer(r, u).status)
                => /\ u.settled /\ Ok(u.status)
                   /\ Answer(r, u).body = u.body
           /\ (~u.settled \/ ~u.json)
                => /\ Answer(r, u).status = 500
                   /\ Answer(r, u).body # ""

\* C34, amended: the upstream status and error body are passed on when the
\* upstream's non-2xx answer has a JSON body; a non-2xx answer whose body is
\* not JSON is answered with 500 like every other exception. No non-2xx
\* upstream answer is answered with a 2xx, and a 2xx carries the upstream's
\* session object.
C34_UpstreamJsonRelayed ==
  \A r \in Requests :
    relay[r].pc = "fetch"
      => \A u \in UpstreamAnswers :
           /\ (u.settled /\ ~Ok(u.status) /\ u.json)
                => Answer(r, u) = Response(u.status, u.body)
           /\ (u.settled /\ ~Ok(u.status)) => ~Ok(Answer(r, u).status)
           /\ Ok(Answer(r, u).status)
                => /\ u.settled /\ Ok(u.status)
                   /\ Answer(r, u).body = u.body
           /\ (~u.settled \/ ~u.json)
                => /\ Answer(r, u).status = 500
                   /\ Answer(r, u).body # ""

\* one request was answered with the upstream's status 400 and its error
\* body while the fetch of another is pending
C34_Witness ==
  \E r, q \in Requests :
    /\ relay[r].fetches # <<>>
    /\ relay[r].responses = <<Response(400, "invalid_model")>>
    /\ relay[q].pc = "fetch"

\* the geocoding request of lookup l is answered in this step
Geocoded(l) ==
  /\ l \in 1..Len(lookups)
  /\ lookups[l].stage = "geocode"
  /\ lookups'[l].stage # "geocode"

\* C35: getWeatherData with a location name makes its forecast request with
\* the coordinates of the first geocoding match, whatever lat and lon it was
\* called with, and hands over the forecast for those coordinates; when
\* geocoding returns no result it fails with 'Location not found', makes no
\* forecast request and sends no frame.
C35_GeocodedCoordinates ==
  [][\A l \in 1..MaxLookups :
       /\ (Geocoded(l) /\ lookups'[l].stage = "forecast")
            => /\ lookups'[l].lat = "48.85"
               /\ lookups'[l].lon = "2.35"
       /\ (Completes(l) /\ lookups[l].locationName # "null"
             /\ CanSend(chans, wxChannel))
            => Suffix(chans[wxChannel].sent, chans'[wxChannel].sent)[1].body
                 \in { ToolMessageEvent("weather", Forecast("48.85", "2.35")).body,
                       ToolMessageEvent("weather",
                                        ForecastError("48.85", "2.35")).body }
       /\ (Geocoded(l) /\ lookups'[l].stage # "forecast")
            => /\ lookups'[l].stage = "failed"
               /\ lookups'[l].error \in {"Location not found", "NetworkError"}
               /\ chans' = chans
       /\ (l \in 1..Len(lookups) /\ lookups[l].stage = "failed")
            => lookups'[l] = lookups[l]]_vars

\* a lookup called with a location name and with coordinates of its own has
\* handed over the forecast of the geocoded place
C35_Witness ==
  \E l \in 1..Len(lookups), c \in Attempts :
    /\ lookups[l].locationName = JSONparse(ArgsBoth).locationName
    /\ lookups[l].stage = "done"
    /\ lookups[l].lat = "48.85"
    /\ lookups[l].lat # JSONparse(ArgsBoth).lat
    /\ asked[l] = c
    /\ Has(chans[c].sent, ToolMessageEvent("weather", Forecast("48.85", "2.35")))
    /\ ~Has(chans[c].sent, ToolMessageEvent("weather", Forecast("0", "0")))

\* the position callback of lookup l, when it runs in this step, turns the
\* call into one getWeatherData lookup with the reported coordinates and no
\* location name
PositionStartsLookup ==
  \A l \in 1..MaxLookups :
    (l \in 1..Len(lookups) /\ lookups[l].stage = "position"
       /\ lookups'[l] # lookups[l])
      => /\ lookups' = [lookups EXCEPT ![l].stage = "forecast",
                                       ![l].lat = "51.50",
                                       ![l].lon = "-0.12"]
         /\ lookups'[l].locationName = "null"

\* C36: without geolocation support getBrowserLocationWeatherData sends the
\* 'Could not access browser location...' message over the open channel and
\* returns it, without throwing; with geolocation, the position callback
\* starts exactly one getWeatherData lookup with the reported coordinates
\* and no location name.
C36_LocationFallback ==
  [][/\ CanSend(chans, wxChannel)
          => LET r == locationUnavailable(chans, wxChannel)
                 new == Suffix(chans[wxChannel].sent, r.chans[wxChannel].sent)
             IN /\ ~r.result.threw
                /\ r.result.value = LocationErrorMessage
                /\ IsPrefix(chans[wxChannel].sent, r.chans[wxChannel].sent)
                /\ \E i \in 1..Len(new) :
                     new[i].type = "conversation.item.create"
     /\ PositionStartsLookup]_vars

\* stop() was called on the visualizer v, leaving w
Stopped(v, w) == w.stopCalls = v.stopCalls + 1

\* the visualizer was never initialised, its init returned false, or it was
\* stopped already
Inert(v) == v.state \in {"none", "failed", "stopped"}

\* C37: AudioVisualizer.stop() leaves no animation frame scheduled and leaves
\* animationId and audioContext null; called on a visualizer that was never
\* initialised, whose init returned false, or that was stopped already, it
\* changes nothing; and init returns false without starting the animation
\* loop when the canvas element is missing.
C37_StopLeavesNothing ==
  /\ [](\A a \in Attempts :
          LET r == init(aiViz[a], "nocanvas")
          IN  ~r.returned /\ r.viz.frame = aiViz[a].frame
                          /\ r.viz.animationId = aiViz[a].animationId)
  /\ [][\A a \in Attempts :
          Stopped(aiViz[a], aiViz'[a]) =>
            /\ ~aiViz'[a].frame
            /\ ~aiViz'[a].animationId
            /\ ~aiViz'[a].audioContext
            /\ Inert(aiViz[a]) =>
                 aiViz'[a] = [aiViz[a] EXCEPT !.stopCalls = @ + 1]]_vars

====
